---- MODULE Spec2Model ----
(***************************************************************************)
(* Model of the sre-copilot analysis pipeline: the completion parser of    *)
(* BedrockService.analyze_text, IncidentAnalyzer, LogAnalyzer and the      *)
(* analyze_incident orchestration.                                         *)
(*                                                                         *)
(* Text is a sequence of tokens.  A token is a word (a run of \w           *)
(* characters, or a fixed phrase the code searches for) or one separator   *)
(* character (" ", ":", "-", "%", "[", "]", "\n").  The string operations  *)
(* of the code (split, strip, in, startswith, float, re) are computed on   *)
(* these sequences.                                                        *)
(***************************************************************************)
EXTENDS Integers, Sequences, FiniteSets, TLC

VARIABLES
    completion,         \* analyze_text: the completion text being parsed
    sections,           \* analyze_text: blocks of completion.split('\n\n') still to visit
    current_section,    \* analyze_text: the parser's current section
    result,             \* analyze_text: the result dictionary
    parse_pc,           \* analyze_text: position in the parse
    analysis_result,    \* analyze_text's return value; IncidentAnalyzer.analyze: local analysis_result
    bedrock_analysis,   \* MetricAnalyzer/LogAnalyzer.analyze: local bedrock_analysis, per engine
    pc,                 \* position in analyze_incident and its analyzers
    incident,           \* the Incident under analysis
    service,            \* the bedrock_service the analyzers were built with
    calls,              \* requests each engine has made to the model collaborator
    error_patterns,     \* LogAnalyzer.analyze: local error_patterns
    correlation_events, \* LogAnalyzer.analyze: local correlation_events
    anomalies,          \* MetricAnalyzer.analyze: local anomalies
    trends,             \* MetricAnalyzer.analyze: local trends
    incident_analysis,  \* what IncidentAnalyzer.analyze returned
    metric_analysis,    \* what MetricAnalyzer.analyze returned
    log_analysis,       \* what LogAnalyzer.analyze returned
    report,             \* what analyze_incident returned
    raised,             \* the exception that left the running operation
    arg_event1,         \* _are_events_related: argument event1
    arg_event2,         \* _are_events_related: argument event2
    related,            \* _are_events_related: return value
    arg_df,             \* _detect_anomalies, _analyze_trends: argument df
    detected,           \* _detect_anomalies: return value
    fitted,             \* _analyze_trends: what it returned or raised
    arg_max_retries,    \* _invoke_with_retry: argument max_retries
    bedrock_answers,    \* what self.bedrock.invoke_model does, invocation by invocation
    invoked             \* _invoke_with_retry: what it returned or raised, and after
                        \* how many invocations and which sleeps

parser_vars == <<completion, sections, current_section, result, parse_pc>>
log_locals == <<error_patterns, correlation_events>>
metric_locals == <<anomalies, trends>>
frame_vars == <<arg_df, detected, fitted>>
retry_vars == <<arg_max_retries, bedrock_answers, invoked>>
function_vars == <<arg_event1, arg_event2, related, frame_vars, retry_vars>>
engine_vars == <<pc, incident, service, calls, bedrock_analysis, log_locals, metric_locals,
                 incident_analysis, metric_analysis, log_analysis, report, raised,
                 function_vars>>
vars == <<parser_vars, analysis_result, engine_vars>>

(***************************************************************************)
(* Bounds of the inputs.                                                   *)
(***************************************************************************)
MaxSections == 3
MaxLogs == 3

(***************************************************************************)
(* String operations.                                                      *)
(***************************************************************************)
NL == "\n"
SP == " "
Whitespace == {SP, NL}

\* pat occurs in s at position i
Occurs(s, pat, i) ==
    /\ i >= 1
    /\ i + Len(pat) - 1 <= Len(s)
    /\ \A k \in 1..Len(pat) : s[i + k - 1] = pat[k]

\* str.find, 1-based; 0 when absent
Find(s, pat) ==
    IF \E i \in 1..Len(s) : Occurs(s, pat, i)
    THEN CHOOSE i \in 1..Len(s) :
            /\ Occurs(s, pat, i)
            /\ \A j \in 1..(i - 1) : ~Occurs(s, pat, j)
    ELSE 0

\* pat in s
Contains(s, pat) == Find(s, pat) # 0

\* s.startswith(pat)
StartsWith(s, pat) == Occurs(s, pat, 1)

\* s.split(sep)
RECURSIVE Split(_, _)
Split(s, sep) ==
    LET i == Find(s, sep)
    IN  IF i = 0
        THEN <<s>>
        ELSE <<SubSeq(s, 1, i - 1)>> \o Split(SubSeq(s, i + Len(sep), Len(s)), sep)

\* s.lstrip(chars), s.rstrip(chars), s.strip(chars)
RECURSIVE LStripChars(_, _)
LStripChars(s, chars) ==
    IF s # <<>> /\ Head(s) \in chars THEN LStripChars(Tail(s), chars) ELSE s

RECURSIVE RStripChars(_, _)
RStripChars(s, chars) ==
    IF s # <<>> /\ s[Len(s)] \in chars
    THEN RStripChars(SubSeq(s, 1, Len(s) - 1), chars)
    ELSE s

StripChars(s, chars) == RStripChars(LStripChars(s, chars), chars)

\* s.strip()
Strip(s) == StripChars(s, Whitespace)

\* sep.join(parts)
RECURSIVE Join(_, _)
Join(parts, sep) ==
    IF parts = <<>> THEN <<>>
    ELSE IF Len(parts) = 1 THEN parts[1]
    ELSE parts[1] \o sep \o Join(Tail(parts), sep)

\* [f(x) for x in seq]
MapSeq(seq, F(_)) == [i \in 1..Len(seq) |-> F(seq[i])]

\* all sequences over S of length at most n
BoundedSeq(S, n) == UNION {[1..k -> S] : k \in 0..n}

(***************************************************************************)
(* float(): optional sign and decimal digits; anything else is ValueError. *)
(***************************************************************************)
Digits == {"0", "1", "2", "3", "4", "5", "6", "7", "8", "9"}

DigitValue(d) ==
    CASE d = "0" -> 0 [] d = "1" -> 1 [] d = "2" -> 2 [] d = "3" -> 3
      [] d = "4" -> 4 [] d = "5" -> 5 [] d = "6" -> 6 [] d = "7" -> 7
      [] d = "8" -> 8 [] d = "9" -> 9

RECURSIVE DigitsValue(_)
DigitsValue(ds) ==
    IF ds = <<>> THEN 0
    ELSE 10 * DigitsValue(SubSeq(ds, 1, Len(ds) - 1)) + DigitValue(ds[Len(ds)])

IsDigits(s) == s # <<>> /\ \A i \in 1..Len(s) : s[i] \in Digits

\* float(text): [ok |-> TRUE, value |-> n], or [ok |-> FALSE] for ValueError
ParseFloat(text) ==
    LET s    == Strip(text)
        body == IF s # <<>> /\ Head(s) \in {"-", "+"} THEN Tail(s) ELSE s
        neg  == s # <<>> /\ Head(s) = "-"
    IN  IF IsDigits(body)
        THEN [ok |-> TRUE, value |-> IF neg THEN 0 - DigitsValue(body) ELSE DigitsValue(body)]
        ELSE [ok |-> FALSE, value |-> 0]

(***************************************************************************)
(* BedrockService.analyze_text: the completion parser.                     *)
(* Confidences are kept in hundredths: float(N) / 100.0 is the value N.    *)
(***************************************************************************)
HeaderRootCause       == <<"1.", SP, "Root Cause Analysis:">>
HeaderImpact          == <<"2.", SP, "Impact Analysis:">>
HeaderFindings        == <<"3.", SP, "Key Findings:">>
HeaderRecommendations == <<"4.", SP, "Recommendations:">>
ConfidenceLabel       == <<"Confidence:">>
EvidenceLabel         == <<"Evidence:">>
Bullet                == <<"-">>

DefaultResult ==
    [ root_cause            |-> <<>>,
      root_cause_confidence |-> 0,
      root_cause_evidence   |-> <<>>,
      impact_analysis       |-> <<>>,
      impact_confidence     |-> 0,
      impact_evidence       |-> <<>>,
      key_findings          |-> <<>>,
      recommendations       |-> <<>> ]

\* lines = [line.strip() for line in section.split('\n') if line.strip()]
SectionLines(section) ==
    SelectSeq(MapSeq(Split(section, <<NL>>), Strip), LAMBDA l : l # <<>>)

\* [line.strip("- ").strip() for line in lines if line.startswith("-")]
BulletItems(lines) ==
    MapSeq(SelectSeq(lines, LAMBDA l : StartsWith(l, Bullet)),
           LAMBDA l : Strip(StripChars(l, {"-", SP})))

\* ConfidenceStr without the rstrip("%")
ConfidenceStrKeepPercent(first_line) ==
    LET parts == Split(first_line, ConfidenceLabel)
    IN  IF Len(parts) < 2
        THEN [raised |-> TRUE, str |-> <<>>]
        ELSE [raised |-> FALSE, str |-> Strip(parts[2])]

\* first_line.split("Confidence:")[1].strip().rstrip("%"); [1] may raise IndexError
ConfidenceStr(first_line) ==
    LET parts == Split(first_line, ConfidenceLabel)
    IN  IF Len(parts) < 2
        THEN [raised |-> TRUE, str |-> <<>>]
        ELSE [raised |-> FALSE, str |-> RStripChars(Strip(parts[2]), {"%"})]

\* ApplyConfidence with a bare else in place of `elif current_section == "impact"`
ApplyConfidenceBareElse(cs, res, confidence_str) ==
    LET f == ParseFloat(confidence_str)
    IN  IF ~f.ok THEN res
        ELSE IF cs = "root_cause" THEN [res EXCEPT !.root_cause_confidence = f.value]
        ELSE [res EXCEPT !.impact_confidence = f.value]

\* the try block around float(confidence_str) / 100.0
ApplyConfidence(cs, res, confidence_str) ==
    LET f == ParseFloat(confidence_str)
    IN  IF ~f.ok THEN res
        ELSE IF cs = "root_cause" THEN [res EXCEPT !.root_cause_confidence = f.value]
        ELSE IF cs = "impact" THEN [res EXCEPT !.impact_confidence = f.value]
        ELSE res

\* ProcessSection with the 'Evidence:' line ending the current section
ProcessSectionEvidenceEnds(cs, res, section) ==
    LET lines      == SectionLines(section)
        first_line == lines[1]
        same       == [current_section |-> cs, result |-> res, raised |-> FALSE]
    IN  IF lines = <<>> THEN same
        ELSE IF Contains(first_line, HeaderRootCause)
        THEN [same EXCEPT !.current_section = "root_cause",
                          !.result = IF Len(lines) > 1
                                     THEN [res EXCEPT !.root_cause = lines[2]]
                                     ELSE res]
        ELSE IF Contains(first_line, HeaderImpact)
        THEN [same EXCEPT !.current_section = "impact",
                          !.result = IF Len(lines) > 1
                                     THEN [res EXCEPT !.impact_analysis = lines[2]]
                                     ELSE res]
        ELSE IF Contains(first_line, HeaderFindings)
        THEN [same EXCEPT !.current_section = "findings",
                          !.result = [res EXCEPT !.key_findings = BulletItems(Tail(lines))]]
        ELSE IF Contains(first_line, HeaderRecommendations)
        THEN [same EXCEPT !.current_section = "recommendations",
                          !.result = [res EXCEPT !.recommendations = BulletItems(Tail(lines))]]
        ELSE IF Contains(first_line, ConfidenceLabel)
        THEN LET c == ConfidenceStr(first_line)
             IN  IF c.raised THEN [same EXCEPT !.raised = TRUE]
                 ELSE [same EXCEPT !.result = ApplyConfidence(cs, res, c.str)]
        ELSE IF Contains(first_line, EvidenceLabel)
        THEN [same EXCEPT !.current_section = "none"]
        ELSE IF cs \in {"root_cause", "impact"} /\ StartsWith(first_line, Bullet)
        THEN IF cs = "root_cause"
             THEN [same EXCEPT !.result = [res EXCEPT !.root_cause_evidence = BulletItems(lines)]]
             ELSE [same EXCEPT !.result = [res EXCEPT !.impact_evidence = BulletItems(lines)]]
        ELSE same

\* the body of `for section in sections`
ProcessSection(cs, res, section) ==
    LET lines      == SectionLines(section)
        first_line == lines[1]
        same       == [current_section |-> cs, result |-> res, raised |-> FALSE]
    IN  IF lines = <<>> THEN same
        ELSE IF Contains(first_line, HeaderRootCause)
        THEN [same EXCEPT !.current_section = "root_cause",
                          !.result = IF Len(lines) > 1
                                     THEN [res EXCEPT !.root_cause = lines[2]]
                                     ELSE res]
        ELSE IF Contains(first_line, HeaderImpact)
        THEN [same EXCEPT !.current_section = "impact",
                          !.result = IF Len(lines) > 1
                                     THEN [res EXCEPT !.impact_analysis = lines[2]]
                                     ELSE res]
        ELSE IF Contains(first_line, HeaderFindings)
        THEN [same EXCEPT !.current_section = "findings",
                          !.result = [res EXCEPT !.key_findings = BulletItems(Tail(lines))]]
        ELSE IF Contains(first_line, HeaderRecommendations)
        THEN [same EXCEPT !.current_section = "recommendations",
                          !.result = [res EXCEPT !.recommendations = BulletItems(Tail(lines))]]
        ELSE IF Contains(first_line, ConfidenceLabel)
        THEN LET c == ConfidenceStr(first_line)
             IN  IF c.raised THEN [same EXCEPT !.raised = TRUE]
                 ELSE [same EXCEPT !.result = ApplyConfidence(cs, res, c.str)]
        ELSE IF Contains(first_line, EvidenceLabel) THEN same
        ELSE IF cs \in {"root_cause", "impact"} /\ StartsWith(first_line, Bullet)
        THEN IF cs = "root_cause"
             THEN [same EXCEPT !.result = [res EXCEPT !.root_cause_evidence = BulletItems(lines)]]
             ELSE [same EXCEPT !.result = [res EXCEPT !.impact_evidence = BulletItems(lines)]]
        ELSE same

\* the except branch of the parse: the error payload
ErrorPayload(text) ==
    [ error |-> <<"Failed to parse response: ", "list index out of range">>,
      raw_completion |-> text ]

NoAnalysisResult == [pending |-> TRUE]

\* sections = completion.split('\n\n'); current_section = None
SplitCompletion ==
    /\ parse_pc = "split"
    /\ sections' = Split(completion, <<NL, NL>>)
    /\ current_section' = "none"
    /\ result' = DefaultResult
    /\ parse_pc' = "loop"
    /\ UNCHANGED <<completion, analysis_result, engine_vars>>

\* one iteration of the loop over the sections
ParseSection ==
    /\ parse_pc = "loop"
    /\ sections # <<>>
    /\ LET step == ProcessSection(current_section, result, Head(sections))
       IN  IF step.raised
           THEN /\ analysis_result' = ErrorPayload(completion)
                /\ parse_pc' = "returned"
                /\ UNCHANGED <<sections, current_section, result>>
           ELSE /\ current_section' = step.current_section
                /\ result' = step.result
                /\ sections' = Tail(sections)
                /\ UNCHANGED <<parse_pc, analysis_result>>
    /\ UNCHANGED <<completion, engine_vars>>

\* return result
ParseReturn ==
    /\ parse_pc = "loop"
    /\ sections = <<>>
    /\ analysis_result' = result
    /\ parse_pc' = "returned"
    /\ UNCHANGED <<completion, sections, current_section, result, engine_vars>>

\* the whole parse as a function of the completion
RECURSIVE ParseSections(_, _, _)
ParseSections(cs, res, secs) ==
    IF secs = <<>> THEN [raised |-> FALSE, result |-> res]
    ELSE LET step == ProcessSection(cs, res, Head(secs))
         IN  IF step.raised THEN [raised |-> TRUE, result |-> res]
             ELSE ParseSections(step.current_section, step.result, Tail(secs))

ParseCompletion(text) ==
    LET p == ParseSections("none", DefaultResult, Split(text, <<NL, NL>>))
    IN  IF p.raised THEN ErrorPayload(text) ELSE p.result

(***************************************************************************)
(* datetime: isoformat(), fromisoformat() and differences in seconds.      *)
(* A datetime is [year, month, day, hour, minute, second, microsecond].    *)
(***************************************************************************)
TwoDigitTokens ==
    << "00", "01", "02", "03", "04", "05", "06", "07", "08", "09",
       "10", "11", "12", "13", "14", "15", "16", "17", "18", "19",
       "20", "21", "22", "23", "24", "25", "26", "27", "28", "29",
       "30", "31", "32", "33", "34", "35", "36", "37", "38", "39",
       "40", "41", "42", "43", "44", "45", "46", "47", "48", "49",
       "50", "51", "52", "53", "54", "55", "56", "57", "58", "59" >>

YearTokens == [y \in {2023, 2024} |-> IF y = 2023 THEN "2023" ELSE "2024"]
MicroTokens == [u \in {500000} |-> "500000"]

\* "%02d" % n
TwoDigit(n) == TwoDigitTokens[n + 1]

IsTwoDigit(tok) == \E n \in 0..59 : TwoDigitTokens[n + 1] = tok
IsFourDigit(tok) == \E y \in DOMAIN YearTokens : YearTokens[y] = tok
TwoDigitValue(tok) == CHOOSE n \in 0..59 : TwoDigitTokens[n + 1] = tok
FourDigitValue(tok) == CHOOSE y \in DOMAIN YearTokens : YearTokens[y] = tok

\* datetime.isoformat(): the microseconds are written only when not zero
IsoFormat(dt) ==
    << YearTokens[dt.year], "-", TwoDigit(dt.month), "-", TwoDigit(dt.day), "T",
       TwoDigit(dt.hour), ":", TwoDigit(dt.minute), ":", TwoDigit(dt.second) >>
    \o (IF dt.microsecond = 0 THEN <<>> ELSE <<".", MicroTokens[dt.microsecond]>>)

IsLeap(y) == y % 4 = 0 /\ (y % 100 # 0 \/ y % 400 = 0)

DaysInMonth(y, m) ==
    IF m = 2 THEN (IF IsLeap(y) THEN 29 ELSE 28)
    ELSE IF m \in {4, 6, 9, 11} THEN 30 ELSE 31

RECURSIVE DaysBeforeMonth(_, _)
DaysBeforeMonth(y, m) ==
    IF m <= 1 THEN 0 ELSE DaysBeforeMonth(y, m - 1) + DaysInMonth(y, m - 1)

DaysBeforeYear(y) ==
    365 * (y - 1) + ((y - 1) \div 4) - ((y - 1) \div 100) + ((y - 1) \div 400)

\* whole seconds of a datetime, counted from the start of the year 2000
ToSeconds(dt) ==
    (DaysBeforeYear(dt.year) - DaysBeforeYear(2000)
        + DaysBeforeMonth(dt.year, dt.month) + dt.day) * 86400
        + dt.hour * 3600 + dt.minute * 60 + dt.second

\* re.compile(r"\d{4}-\d{2}-\d{2}T\d{2}:\d{2}:\d{2}") matching at position i
TimestampAt(s, i) ==
    /\ i + 10 <= Len(s)
    /\ IsFourDigit(s[i])
    /\ s[i + 1] = "-" /\ IsTwoDigit(s[i + 2])
    /\ s[i + 3] = "-" /\ IsTwoDigit(s[i + 4])
    /\ s[i + 5] = "T" /\ IsTwoDigit(s[i + 6])
    /\ s[i + 7] = ":" /\ IsTwoDigit(s[i + 8])
    /\ s[i + 9] = ":" /\ IsTwoDigit(s[i + 10])

\* timestamp_pattern.search(log): position of the first match, 0 when none
TimestampSearch(s) ==
    IF \E i \in 1..Len(s) : TimestampAt(s, i)
    THEN CHOOSE i \in 1..Len(s) :
            TimestampAt(s, i) /\ \A j \in 1..(i - 1) : ~TimestampAt(s, j)
    ELSE 0

\* datetime.fromisoformat(timestamp_match.group(0)); ok = FALSE for ValueError
FromIsoFormat(s, i) ==
    LET dt == [ year |-> FourDigitValue(s[i]), month |-> TwoDigitValue(s[i + 2]),
                day |-> TwoDigitValue(s[i + 4]), hour |-> TwoDigitValue(s[i + 6]),
                minute |-> TwoDigitValue(s[i + 8]), second |-> TwoDigitValue(s[i + 10]),
                microsecond |-> 0 ]
    IN  [ ok |-> /\ dt.month \in 1..12
                 /\ dt.day \in 1..DaysInMonth(dt.year, dt.month)
                 /\ dt.hour \in 0..23,
          value |-> dt ]

(***************************************************************************)
(* LogAnalyzer: the log strings and the error patterns.                    *)
(* A Log is [timestamp, level, source, message]; level is one token,       *)
(* source and message are token sequences.                                 *)
(***************************************************************************)
\* f"{log.timestamp.isoformat()} [{log.level}] {log.source}: {log.message}"
LogString(log) ==
    IsoFormat(log.timestamp) \o <<SP, "[", log.level, "]", SP>>
        \o log.source \o <<":", SP>> \o log.message

ErrorLevels == {"ERROR", "FATAL", "CRITICAL", "FAILED"}

\* smallest position >= from at which tok \in S, 0 when none
NextIn(s, from, S) ==
    IF \E i \in from..Len(s) : s[i] \in S
    THEN CHOOSE i \in from..Len(s) : s[i] \in S /\ \A j \in from..(i - 1) : s[j] \notin S
    ELSE 0

\* rf"(ERROR|FATAL|CRITICAL|FAILED).*?:(.*?)(?:\n|$)" tried at position i:
\* the level token, then the first ":" with no newline before it, then the
\* rest of the line.  [ok, level, message, next]
ErrorMatchAt(s, i) ==
    LET stop  == NextIn(s, i + 1, {":", NL})
        colon == IF stop # 0 /\ s[stop] = ":" THEN stop ELSE 0
        nl    == NextIn(s, colon + 1, {NL})
        last  == IF nl = 0 THEN Len(s) ELSE nl - 1
    IN  IF s[i] \in ErrorLevels /\ colon # 0
        THEN [ ok |-> TRUE, level |-> s[i],
               message |-> Strip(SubSeq(s, colon + 1, last)),
               next |-> IF nl = 0 THEN Len(s) + 1 ELSE nl + 1 ]
        ELSE [ ok |-> FALSE, level |-> "", message |-> <<>>, next |-> i + 1 ]

\* error_pattern.finditer(log) from position `from`: the matches in order,
\* each as {"level": group(1), "message": group(2).strip()}
RECURSIVE ErrorMatchesFrom(_, _)
ErrorMatchesFrom(s, from) ==
    IF from > Len(s) THEN <<>>
    ELSE LET m == ErrorMatchAt(s, from)
         IN  IF m.ok
             THEN <<[level |-> m.level, message |-> m.message]>> \o ErrorMatchesFrom(s, m.next)
             ELSE ErrorMatchesFrom(s, from + 1)

\* the loop filling error_messages
RECURSIVE ErrorMessages(_)
ErrorMessages(log_strings) ==
    IF log_strings = <<>> THEN <<>>
    ELSE ErrorMatchesFrom(Head(log_strings), 1) \o ErrorMessages(Tail(log_strings))

\* Counter(msg["message"] for msg in error_messages): <<message, count>> pairs
\* in the order the messages were first inserted
RECURSIVE CounterOf(_)
CounterOf(items) ==
    IF items = <<>> THEN <<>>
    ELSE LET before == CounterOf(SubSeq(items, 1, Len(items) - 1))
             x      == items[Len(items)]
         IN  IF \E k \in 1..Len(before) : before[k][1] = x
             THEN [k \in 1..Len(before) |->
                      IF before[k][1] = x THEN <<x, before[k][2] + 1>> ELSE before[k]]
             ELSE Append(before, <<x, 1>>)

\* InsertByCount placing p before the pairs of equal count
RECURSIVE InsertByCountBeforeEquals(_, _)
InsertByCountBeforeEquals(sorted, p) ==
    IF sorted = <<>> THEN <<p>>
    ELSE IF Head(sorted)[2] > p[2]
    THEN <<Head(sorted)>> \o InsertByCountBeforeEquals(Tail(sorted), p)
    ELSE <<p>> \o sorted

\* insertion of pair p into a list sorted by count descending, after its equals
RECURSIVE InsertByCount(_, _)
InsertByCount(sorted, p) ==
    IF sorted = <<>> THEN <<p>>
    ELSE IF Head(sorted)[2] >= p[2] THEN <<Head(sorted)>> \o InsertByCount(Tail(sorted), p)
    ELSE <<p>> \o sorted

\* sorted(pairs, key=itemgetter(1), reverse=True): stable
RECURSIVE SortByCountDesc(_)
SortByCountDesc(pairs) ==
    IF pairs = <<>> THEN <<>>
    ELSE InsertByCount(SortByCountDesc(SubSeq(pairs, 1, Len(pairs) - 1)), pairs[Len(pairs)])

\* Counter.most_common()
MostCommon(counter) == SortByCountDesc(counter)

\* FirstLevel reading the level of the last occurrence
LastLevel(error_messages, message) ==
    error_messages[CHOOSE i \in 1..Len(error_messages) :
                      /\ error_messages[i].message = message
                      /\ \A j \in (i + 1)..Len(error_messages) :
                            error_messages[j].message # message].level

\* next(msg["level"] for msg in error_messages if msg["message"] == message)
FirstLevel(error_messages, message) ==
    error_messages[CHOOSE i \in 1..Len(error_messages) :
                      /\ error_messages[i].message = message
                      /\ \A j \in 1..(i - 1) : error_messages[j].message # message].level

\* LogAnalyzer._analyze_error_patterns
AnalyzeErrorPatterns(log_strings) ==
    LET error_messages == ErrorMessages(log_strings)
        common == MostCommon(CounterOf(MapSeq(error_messages, LAMBDA m : m.message)))
    IN  [k \in 1..Len(common) |->
            [ message   |-> common[k][1],
              frequency |-> common[k][2],
              level     |-> FirstLevel(error_messages, common[k][1]) ]]

(***************************************************************************)
(* LogAnalyzer: correlated events.                                         *)
(***************************************************************************)
Separators == {SP, NL, ":", "-", "[", "]", ".", "%"}

IsWordToken(tok) == tok \notin Separators

\* str.lower() on one token
Lower(tok) ==
    CASE tok = "T" -> "t"
      [] tok = "ERROR" -> "error"
      [] tok = "FATAL" -> "fatal"
      [] tok = "CRITICAL" -> "critical"
      [] tok = "FAILED" -> "failed"
      [] tok = "WARNING" -> "warning"
      [] tok = "INFO" -> "info"
      [] tok = "Disk" -> "disk"
      [] OTHER -> tok

\* set(re.findall(r"\b\w+\b", event.lower())): the maximal runs of word
\* tokens, lower-cased; cur is the run being read
RECURSIVE WordRuns(_, _)
WordRuns(s, cur) ==
    LET done == IF cur = <<>> THEN {} ELSE {cur}
    IN  IF s = <<>> THEN done
        ELSE IF IsWordToken(Head(s)) THEN WordRuns(Tail(s), Append(cur, Lower(Head(s))))
        ELSE done \cup WordRuns(Tail(s), <<>>)

Terms(event) == WordRuns(event, <<>>)

\* AreEventsRelated with the threshold itself let through
AreEventsRelatedAtThreshold(event1, event2) ==
    LET terms1       == Terms(event1)
        terms2       == Terms(event2)
        intersection == Cardinality(terms1 \cap terms2)
        union        == Cardinality(terms1 \cup terms2)
    IN  IF union = 0 THEN FALSE
        ELSE 10 * intersection >= 3 * union

\* LogAnalyzer._are_events_related: intersection / union > 0.3
AreEventsRelated(event1, event2) ==
    LET terms1       == Terms(event1)
        terms2       == Terms(event2)
        intersection == Cardinality(terms1 \cap terms2)
        union        == Cardinality(terms1 \cup terms2)
    IN  IF union = 0 THEN FALSE
        ELSE 10 * intersection > 3 * union

\* the loop filling events: entries in which a timestamp is found and parsed
RECURSIVE ExtractEvents(_)
ExtractEvents(log_strings) ==
    IF log_strings = <<>> THEN <<>>
    ELSE LET log == Head(log_strings)
             at  == TimestampSearch(log)
             ts  == FromIsoFormat(log, at)
         IN  (IF at # 0 /\ ts.ok
              THEN <<[timestamp |-> ts.value, content |-> log]>>
              ELSE <<>>) \o ExtractEvents(Tail(log_strings))

\* insertion of event e into a list sorted by timestamp, after its equals
RECURSIVE InsertByTimestamp(_, _)
InsertByTimestamp(sorted, e) ==
    IF sorted = <<>> THEN <<e>>
    ELSE IF ToSeconds(Head(sorted).timestamp) <= ToSeconds(e.timestamp)
    THEN <<Head(sorted)>> \o InsertByTimestamp(Tail(sorted), e)
    ELSE <<e>> \o sorted

\* events.sort(key=lambda x: x["timestamp"]): stable
RECURSIVE SortByTimestamp(_)
SortByTimestamp(events) ==
    IF events = <<>> THEN <<>>
    ELSE InsertByTimestamp(SortByTimestamp(SubSeq(events, 1, Len(events) - 1)),
                           events[Len(events)])

time_window == 300

\* (events[j]["timestamp"] - events[i]["timestamp"]).total_seconds()
TimeDiff(events, i, j) == ToSeconds(events[j].timestamp) - ToSeconds(events[i].timestamp)

\* IsCorrelated with the window's end left out
IsCorrelatedInsideWindow(events, i, j) ==
    /\ TimeDiff(events, i, j) < time_window
    /\ AreEventsRelated(events[i].content, events[j].content)

\* the test of the inner loop body
IsCorrelated(events, i, j) ==
    /\ TimeDiff(events, i, j) <= time_window
    /\ AreEventsRelated(events[i].content, events[j].content)

CorrelationOf(events, i, j) ==
    [ event1     |-> events[i].content,
      event2     |-> events[j].content,
      time_diff  |-> TimeDiff(events, i, j),
      timestamp1 |-> IsoFormat(events[i].timestamp),
      timestamp2 |-> IsoFormat(events[j].timestamp) ]

\* for i in range(len(events)): for j in range(i + 1, len(events)): ...
RECURSIVE CorrelatePairs(_, _, _)
CorrelatePairs(events, i, j) ==
    IF i > Len(events) THEN <<>>
    ELSE IF j > Len(events) THEN CorrelatePairs(events, i + 1, i + 2)
    ELSE (IF IsCorrelated(events, i, j) THEN <<CorrelationOf(events, i, j)>> ELSE <<>>)
            \o CorrelatePairs(events, i, j + 1)

\* LogAnalyzer._analyze_correlations
AnalyzeCorrelations(log_strings) ==
    CorrelatePairs(SortByTimestamp(ExtractEvents(log_strings)), 1, 2)

(***************************************************************************)
(* The model collaborator as the analyzers see it: bedrock_service's       *)
(* analyze_text returns the parse of some completion or raises; a service  *)
(* object handed to analyze_incident in place of BedrockService may also   *)
(* return the error payload.                                               *)
(***************************************************************************)
None == [none |-> TRUE]

Services == {"BedrockService", "injected"}

Engines == {"incident", "metrics", "logs"}

\* nothing called, computed, returned or raised yet
EnginesFresh ==
    /\ calls = [e \in Engines |-> 0]
    /\ bedrock_analysis = [e \in {"metrics", "logs"} |-> None]
    /\ error_patterns = <<>>
    /\ correlation_events = <<>>
    /\ anomalies = <<>>
    /\ trends = <<>>
    /\ incident_analysis = None
    /\ metric_analysis = None
    /\ log_analysis = None
    /\ report = None
    /\ raised = None

\* neither _detect_anomalies nor _analyze_trends is being called on its own
FramesIdle ==
    /\ arg_df = None
    /\ detected = None
    /\ fitted = None

\* _invoke_with_retry is not being called on its own
RetryIdle ==
    /\ arg_max_retries = 0
    /\ bedrock_answers = <<>>
    /\ invoked = None

\* no function is being called on its own
FunctionsIdle ==
    /\ arg_event1 = <<>>
    /\ arg_event2 = <<>>
    /\ related = None
    /\ FramesIdle
    /\ RetryIdle

EnginesIdle ==
    /\ FunctionsIdle
    /\ pc = "idle"
    /\ incident = None
    /\ service = "BedrockService"
    /\ EnginesFresh

ParserIdle ==
    /\ completion = <<>>
    /\ sections = <<>>
    /\ current_section = "none"
    /\ result = DefaultResult
    /\ parse_pc = "idle"

\* raise Exception(f"Error analyzing text with Bedrock: {str(e)}")
CollaboratorError ==
    [ type |-> "Exception",
      message |-> <<"Error analyzing text with Bedrock: ", "invoke_model failed">> ]

CollaboratorCompletions ==
    { <<>>,
      Join(<<HeaderRootCause, <<"disk", SP, "full">>>>, <<NL>>)
          \o <<NL, NL>> \o ConfidenceLabel \o <<SP, "8", "5", "%">>
          \o <<NL, NL>>
          \o Join(<<HeaderFindings, <<"-", SP, "f1">>, <<"-", SP, "f2">>>>, <<NL>>)
          \o <<NL, NL>>
          \o Join(<<HeaderRecommendations, <<"-", SP, "r2">>, <<"-", SP, "r1">>>>, <<NL>>) }

\* what `await self.bedrock_service.analyze_text(...)` can return
TextReturns(svc) ==
    { ParseCompletion(c) : c \in CollaboratorCompletions }
        \cup (IF svc = "injected"
              THEN { ErrorPayload(c) : c \in CollaboratorCompletions }
              ELSE {})

\* InsightsOf reading the list the parser does fill, key_findings
InsightsOfKeyFindings(returned) ==
    IF "key_findings" \in DOMAIN returned
    THEN returned.key_findings
    ELSE <<>>

\* bedrock_analysis.get("insights", []) turned into AnalysisInsight objects
InsightsOf(returned) ==
    IF "insights" \in DOMAIN returned
    THEN returned.insights
    ELSE <<>>

(***************************************************************************)
(* LogAnalyzer.analyze                                                     *)
(***************************************************************************)
\* LogAnalyze without the early return on an empty list
LogAnalyzeAlwaysCalls ==
    /\ pc \in {"logs", "metrics_done"}
    /\ error_patterns' = AnalyzeErrorPatterns(MapSeq(incident.logs, LogString))
    /\ correlation_events' = AnalyzeCorrelations(MapSeq(incident.logs, LogString))
    /\ calls' = [calls EXCEPT !["logs"] = @ + 1]
    /\ pc' = "logs_await"
    /\ UNCHANGED <<parser_vars, function_vars, analysis_result, incident, service, bedrock_analysis,
                   metric_locals, log_analysis, incident_analysis, metric_analysis, report,
                   raised>>

\* up to the await of bedrock_service.analyze_logs
LogAnalyze ==
    /\ pc \in {"logs", "metrics_done"}
    /\ IF incident.logs = <<>>
       THEN /\ log_analysis' = [ insights |-> <<>>, error_patterns |-> <<>>,
                                 correlation_events |-> <<>> ]
            /\ pc' = "logs_done"
            /\ UNCHANGED <<calls, error_patterns, correlation_events>>
       ELSE /\ error_patterns' = AnalyzeErrorPatterns(MapSeq(incident.logs, LogString))
            /\ correlation_events' = AnalyzeCorrelations(MapSeq(incident.logs, LogString))
            /\ calls' = [calls EXCEPT !["logs"] = @ + 1]
            /\ pc' = "logs_await"
            /\ UNCHANGED log_analysis
    /\ UNCHANGED <<parser_vars, function_vars, analysis_result, incident, service, bedrock_analysis,
                   metric_locals, incident_analysis, metric_analysis, report, raised>>

\* from the return of analyze_logs to the return of analyze
LogResume ==
    /\ pc = "logs_await"
    /\ \/ \E returned \in TextReturns(service) :
            /\ bedrock_analysis' = [bedrock_analysis EXCEPT !["logs"] = returned]
            /\ log_analysis' = [ insights |-> InsightsOf(returned),
                                 error_patterns |-> error_patterns,
                                 correlation_events |-> correlation_events ]
            /\ pc' = "logs_done"
            /\ UNCHANGED raised
       \/ /\ raised' = CollaboratorError
          /\ pc' = "failed"
          /\ UNCHANGED <<bedrock_analysis, log_analysis>>
    /\ UNCHANGED <<parser_vars, function_vars, analysis_result, incident, service, calls, log_locals,
                   metric_locals, incident_analysis, metric_analysis, report>>

(***************************************************************************)
(* MetricAnalyzer.  Metric values are integers; a mean, a slope or an      *)
(* intercept is kept as the fraction num / den, a standard deviation as    *)
(* the fraction whose square root it is.                                   *)
(***************************************************************************)
MetricFields == <<"name", "value", "timestamp", "tags">>

ColumnLabels == <<"0", "1", "2", "3">>

\* pd.DataFrame(metrics) for a list of Metric objects: pandas reads each
\* object as the row of its (field, value) pairs, so the frame has one column
\* per field position, every cell is a pair and every column of dtype object
DataFrame(metrics) ==
    [ columns |-> ColumnLabels,
      dtypes  |-> [c \in {ColumnLabels[k] : k \in 1..Len(ColumnLabels)} |-> "object"],
      data    |-> [k \in 1..Len(ColumnLabels) |->
                      [r \in 1..Len(metrics) |->
                          <<MetricFields[k], metrics[r][MetricFields[k]]>>]] ]

\* df.select_dtypes(include=[np.number]).columns, as positions in df.columns
NumericColumns(df) ==
    SelectSeq([k \in 1..Len(df.columns) |-> k], LAMBDA k : df.dtypes[df.columns[k]] = "number")

RECURSIVE SumSeq(_)
SumSeq(xs) == IF xs = <<>> THEN 0 ELSE Head(xs) + SumSeq(Tail(xs))

\* n * (x - mean) for every sample x
Deviations(values) ==
    [i \in 1..Len(values) |-> Len(values) * values[i] - SumSeq(values)]

Squares(xs) == [i \in 1..Len(xs) |-> xs[i] * xs[i]]

\* AnomalyMask with 2 standard deviations in place of 3
AnomalyMaskTwoSigma(values) ==
    LET n   == Len(values)
        dev == Deviations(values)
    IN  [i \in 1..n |->
            /\ n >= 2
            /\ dev[i] * dev[i] * (n - 1) > 4 * SumSeq(Squares(dev))]

\* AnomalyMask with the threshold itself counted as anomalous
AnomalyMaskAtThreshold(values) ==
    LET n   == Len(values)
        dev == Deviations(values)
    IN  [i \in 1..n |->
            /\ n >= 2
            /\ dev[i] * dev[i] * (n - 1) >= 9 * SumSeq(Squares(dev))]

\* abs(df[column] - mean) > 3 * std, the std of n - 1 degrees of freedom; with
\* one sample the std is NaN and the comparison False
AnomalyMask(values) ==
    LET n   == Len(values)
        dev == Deviations(values)
    IN  [i \in 1..n |->
            /\ n >= 2
            /\ dev[i] * dev[i] * (n - 1) > 9 * SumSeq(Squares(dev))]

\* the body of the loop of _detect_anomalies for one column
AnomalyRecords(column, values) ==
    LET n       == Len(values)
        mask    == AnomalyMask(values)
        indices == SelectSeq([i \in 1..n |-> i], LAMBDA i : mask[i])
    IN  IF indices = <<>> THEN <<>>
        ELSE << [ metric          |-> column,
                  anomaly_indices |-> [k \in 1..Len(indices) |-> indices[k] - 1],
                  values          |-> [k \in 1..Len(indices) |-> values[indices[k]]],
                  mean            |-> [num |-> SumSeq(values), den |-> n],
                  std             |-> [sqrt_of |-> [num |-> SumSeq(Squares(Deviations(values))),
                                                    den |-> n * n * (n - 1)]] ] >>

\* MetricAnalyzer._detect_anomalies
RECURSIVE DetectAnomaliesIn(_, _)
DetectAnomaliesIn(df, columns) ==
    IF columns = <<>> THEN <<>>
    ELSE AnomalyRecords(df.columns[Head(columns)], df.data[Head(columns)])
             \o DetectAnomaliesIn(df, Tail(columns))

DetectAnomalies(df) == DetectAnomaliesIn(df, NumericColumns(df))

\* np.polyfit(np.arange(n), values, 1) for n >= 2: the least-squares line
Polyfit(values) ==
    LET n   == Len(values)
        x   == [i \in 1..n |-> i - 1]
        sx  == SumSeq(x)
        sy  == SumSeq(values)
        sxy == SumSeq([i \in 1..n |-> x[i] * values[i]])
        sxx == SumSeq(Squares(x))
        den == n * sxx - sx * sx
        num == n * sxy - sx * sy
    IN  [ slope     |-> [num |-> num, den |-> den],
          intercept |-> [num |-> sy * den - num * sx, den |-> n * den] ]

\* TrendRecord with a flat line counted as increasing
TrendRecordFlatIncreasing(column, values) ==
    LET line == Polyfit(values)
    IN  [ metric    |-> column,
          direction |-> IF line.slope.num >= 0 THEN "increasing" ELSE "decreasing",
          slope     |-> line.slope,
          intercept |-> line.intercept,
          strength  |-> [ num |-> IF line.slope.num < 0 THEN -line.slope.num
                                  ELSE line.slope.num,
                          den |-> line.slope.den ] ]

\* the body of the loop of _analyze_trends for one column
TrendRecord(column, values) ==
    LET line == Polyfit(values)
    IN  [ metric    |-> column,
          direction |-> IF line.slope.num > 0 THEN "increasing" ELSE "decreasing",
          slope     |-> line.slope,
          intercept |-> line.intercept,
          strength  |-> [ num |-> IF line.slope.num < 0 THEN -line.slope.num
                                  ELSE line.slope.num,
                          den |-> line.slope.den ] ]

\* MetricAnalyzer._analyze_trends
RECURSIVE AnalyzeTrendsIn(_, _)
AnalyzeTrendsIn(df, columns) ==
    IF columns = <<>> THEN <<>>
    ELSE <<TrendRecord(df.columns[Head(columns)], df.data[Head(columns)])>>
             \o AnalyzeTrendsIn(df, Tail(columns))

AnalyzeTrends(df) == AnalyzeTrendsIn(df, NumericColumns(df))

\* pd.DataFrame(metrics) for a list of dicts {"name": str, "value": int}, the
\* List[Dict[str, Any]] of the signature of analyze: one column per key, the
\* column of the names of dtype object and the column of the values numeric
DataFrameOfDicts(metrics) ==
    [ columns |-> <<"name", "value">>,
      dtypes  |-> [c \in {"name", "value"} |-> IF c = "value" THEN "number" ELSE "object"],
      data    |-> << [r \in 1..Len(metrics) |-> metrics[r].name],
                     [r \in 1..Len(metrics) |-> metrics[r].value] >> ]

NaN == [nan |-> TRUE]

LinAlgError == <<"SVD did not converge in Linear Least Squares">>

\* the body of the loop of _analyze_trends for a column of one sample:
\* np.polyfit scales the column of x = [0] by its norm 0, and lstsq on the
\* resulting NaN either fails to converge or answers NaN, by the LAPACK build
ShortTrendOutcomes(column) ==
    { [raised |-> LinAlgError],
      [record |-> [ metric    |-> column,
                    direction |-> "decreasing",
                    slope     |-> NaN,
                    intercept |-> NaN,
                    strength  |-> NaN ]] }

\* what the body of the loop of _analyze_trends can do for one column
TrendOutcomes(column, values) ==
    IF Len(values) >= 2 THEN { [record |-> TrendRecord(column, values)] }
    ELSE ShortTrendOutcomes(column)

\* MetricAnalyzer._analyze_trends with the ways np.polyfit can end: the set
\* of [returned |-> trends] and [raised |-> message] it can end in
RECURSIVE AnalyzeTrendsOutcomesIn(_, _)
AnalyzeTrendsOutcomesIn(df, columns) ==
    IF columns = <<>> THEN { [returned |-> <<>>] }
    ELSE LET first == TrendOutcomes(df.columns[Head(columns)], df.data[Head(columns)])
             rest  == AnalyzeTrendsOutcomesIn(df, Tail(columns))
         IN  { [raised |-> o.raised] : o \in {f \in first : "raised" \in DOMAIN f} }
                 \cup { IF "raised" \in DOMAIN r THEN r
                        ELSE [returned |-> <<o.record>> \o r.returned] :
                        o \in {f \in first : "record" \in DOMAIN f}, r \in rest }

AnalyzeTrendsOutcomes(df) == AnalyzeTrendsOutcomesIn(df, NumericColumns(df))

\* MetricAnalyze sending a request for the metrics and one for analysis_data
MetricAnalyzeTwoRequests ==
    /\ pc \in {"metrics", "incident_done"}
    /\ IF incident.metrics = <<>>
       THEN /\ metric_analysis' = [insights |-> <<>>, anomalies |-> <<>>, trends |-> <<>>]
            /\ pc' = "metrics_done"
            /\ UNCHANGED <<calls, metric_locals>>
       ELSE /\ anomalies' = DetectAnomalies(DataFrame(incident.metrics))
            /\ trends' = AnalyzeTrends(DataFrame(incident.metrics))
            /\ calls' = [calls EXCEPT !["metrics"] = @ + 2]
            /\ pc' = "metrics_await"
            /\ UNCHANGED metric_analysis
    /\ UNCHANGED <<parser_vars, function_vars, analysis_result, incident, service, bedrock_analysis,
                   log_locals, incident_analysis, log_analysis, report, raised>>

\* MetricAnalyzer.analyze up to the await of bedrock_service.analyze_metrics
MetricAnalyze ==
    /\ pc \in {"metrics", "incident_done"}
    /\ IF incident.metrics = <<>>
       THEN /\ metric_analysis' = [insights |-> <<>>, anomalies |-> <<>>, trends |-> <<>>]
            /\ pc' = "metrics_done"
            /\ UNCHANGED <<calls, metric_locals>>
       ELSE /\ anomalies' = DetectAnomalies(DataFrame(incident.metrics))
            /\ trends' = AnalyzeTrends(DataFrame(incident.metrics))
            /\ calls' = [calls EXCEPT !["metrics"] = @ + 1]
            /\ pc' = "metrics_await"
            /\ UNCHANGED metric_analysis
    /\ UNCHANGED <<parser_vars, function_vars, analysis_result, incident, service, bedrock_analysis,
                   log_locals, incident_analysis, log_analysis, report, raised>>

\* MetricResume with the collaborator's error caught and the run going on
MetricResumeSwallowsError ==
    /\ pc = "metrics_await"
    /\ \/ \E returned \in TextReturns(service) :
            /\ bedrock_analysis' = [bedrock_analysis EXCEPT !["metrics"] = returned]
            /\ metric_analysis' = [ insights  |-> InsightsOf(returned),
                                    anomalies |-> anomalies,
                                    trends    |-> trends ]
            /\ pc' = "metrics_done"
            /\ UNCHANGED raised
       \/ /\ raised' = CollaboratorError
          /\ pc' = "metrics_done"
          /\ UNCHANGED <<bedrock_analysis, metric_analysis>>
    /\ UNCHANGED <<parser_vars, function_vars, analysis_result, incident, service, calls, log_locals,
                   metric_locals, incident_analysis, log_analysis, report>>

\* from the return of analyze_metrics to the return of analyze
MetricResume ==
    /\ pc = "metrics_await"
    /\ \/ \E returned \in TextReturns(service) :
            /\ bedrock_analysis' = [bedrock_analysis EXCEPT !["metrics"] = returned]
            /\ metric_analysis' = [ insights  |-> InsightsOf(returned),
                                    anomalies |-> anomalies,
                                    trends    |-> trends ]
            /\ pc' = "metrics_done"
            /\ UNCHANGED raised
       \/ /\ raised' = CollaboratorError
          /\ pc' = "failed"
          /\ UNCHANGED <<bedrock_analysis, metric_analysis>>
    /\ UNCHANGED <<parser_vars, function_vars, analysis_result, incident, service, calls, log_locals,
                   metric_locals, incident_analysis, log_analysis, report>>

(***************************************************************************)
(* IncidentAnalyzer.analyze                                                *)
(***************************************************************************)
\* dict.get(key, default)
Get(mapping, key, default) ==
    IF key \in DOMAIN mapping THEN mapping[key] ELSE default

AnalysisInsight(description, confidence, evidence) ==
    [description |-> description, confidence |-> confidence, evidence |-> evidence]

\* the fields class IncidentAnalysis declares; timestamp has a default and is
\* never passed
IncidentAnalysisFields ==
    { "incident_id", "root_cause", "impact_analysis", "metric_insights", "log_insights",
      "recommendations" }

\* IncidentAnalysis(**kwargs): a pydantic model keeps the declared fields and
\* ignores every other keyword
IncidentAnalysis(kwargs) ==
    [f \in IncidentAnalysisFields \cap DOMAIN kwargs |-> kwargs[f]]

\* up to the await of bedrock_service.analyze_text
IncidentAnalyze ==
    /\ pc = "incident"
    /\ calls' = [calls EXCEPT !["incident"] = @ + 1]
    /\ pc' = "incident_await"
    /\ UNCHANGED <<parser_vars, function_vars, analysis_result, incident, service, bedrock_analysis,
                   log_locals, metric_locals, incident_analysis, metric_analysis,
                   log_analysis, report, raised>>

\* from the return of analyze_text to the return of analyze
IncidentResume ==
    /\ pc = "incident_await"
    /\ \/ \E returned \in TextReturns(service) :
            /\ analysis_result' = returned
            /\ IF "error" \in DOMAIN returned
               THEN /\ raised' = [ type    |-> "Exception",
                                   message |-> <<"Failed to analyze incident: ">>
                                                   \o returned.error ]
                    /\ pc' = "failed"
                    /\ UNCHANGED incident_analysis
               ELSE /\ incident_analysis' =
                          IncidentAnalysis(
                              [ incident_id     |-> incident.incident_id,
                                root_cause      |->
                                    AnalysisInsight(
                                        Get(returned, "root_cause", <<"Unknown">>),
                                        Get(returned, "root_cause_confidence", 0),
                                        Get(returned, "root_cause_evidence", <<>>)),
                                impact_analysis |->
                                    AnalysisInsight(
                                        Get(returned, "impact_analysis", <<"Unknown">>),
                                        Get(returned, "impact_confidence", 0),
                                        Get(returned, "impact_evidence", <<>>)),
                                metric_insights |-> <<>>,
                                log_insights    |-> <<>>,
                                key_findings    |-> Get(returned, "key_findings", <<>>),
                                recommendations |-> Get(returned, "recommendations", <<>>) ])
                    /\ pc' = "incident_done"
                    /\ UNCHANGED raised
       \/ /\ raised' = CollaboratorError
          /\ pc' = "failed"
          /\ UNCHANGED <<analysis_result, incident_analysis>>
    /\ UNCHANGED <<parser_vars, function_vars, incident, service, calls, bedrock_analysis, log_locals,
                   metric_locals, metric_analysis, log_analysis, report>>

(***************************************************************************)
(* analyze_incident.  An exception of an engine is raised again by the     *)
(* except clause as Exception(str(e)), the same type and message the       *)
(* engines raise with.                                                     *)
(***************************************************************************)
valid_severities == {"P0", "P1", "P2", "P3", "P4"}

\* datetime < datetime
Earlier(a, b) ==
    \/ ToSeconds(a) < ToSeconds(b)
    \/ ToSeconds(a) = ToSeconds(b) /\ a.microsecond < b.microsecond

\* validate_incident_data: the message of the ValueError, or <<>> when the
\* incident passes.  The tests of start_time, of the timestamps and of the
\* metric values cannot fail on an Incident: the fields are typed datetime and
\* float.
ValidationError(inc) ==
    IF inc.incident_id = "" THEN <<"Incident ID is required">>
    ELSE IF inc.title = "" THEN <<"Incident title is required">>
    ELSE IF inc.description = "" THEN <<"Incident description is required">>
    ELSE IF inc.severity = "" THEN <<"Incident severity is required">>
    ELSE IF inc.severity \notin valid_severities
    THEN <<"Invalid severity level. Must be one of: P0, P1, P2, P3, P4">>
    ELSE IF inc.end_time # None /\ Earlier(inc.end_time, inc.start_time)
    THEN <<"End time cannot be before start time">>
    ELSE IF \E k \in 1..Len(inc.metrics) : inc.metrics[k].name = ""
    THEN <<"Metric name is required">>
    ELSE IF \E k \in 1..Len(inc.logs) : inc.logs[k].level = ""
    THEN <<"Log level is required">>
    ELSE IF \E k \in 1..Len(inc.logs) : inc.logs[k].message = <<>>
    THEN <<"Log message is required">>
    ELSE IF \E k \in 1..Len(inc.logs) : inc.logs[k].source = <<>>
    THEN <<"Log source is required">>
    ELSE <<>>

\* Validate with the error of validate_incident_data logged, not raised
ValidateLogsOnly ==
    /\ pc = "start"
    /\ pc' = "incident"
    /\ UNCHANGED <<parser_vars, function_vars, analysis_result, incident, service, calls, bedrock_analysis,
                   log_locals, metric_locals, incident_analysis, metric_analysis,
                   log_analysis, report, raised>>

\* validate_incident_data(incident) and the construction of the analyzers
Validate ==
    /\ pc = "start"
    /\ IF ValidationError(incident) # <<>>
       THEN /\ raised' = [type |-> "ValueError", message |-> ValidationError(incident)]
            /\ pc' = "failed"
       ELSE /\ pc' = "incident"
            /\ UNCHANGED raised
    /\ UNCHANGED <<parser_vars, function_vars, analysis_result, incident, service, calls, bedrock_analysis,
                   log_locals, metric_locals, incident_analysis, metric_analysis,
                   log_analysis, report>>

\* combined_analysis = IncidentAnalysis(...); return combined_analysis
Combine ==
    /\ pc = "logs_done"
    /\ incident_analysis # None
    /\ metric_analysis # None
    /\ report' = IncidentAnalysis(
                     [ incident_id     |-> incident.incident_id,
                       root_cause      |-> incident_analysis.root_cause,
                       impact_analysis |-> incident_analysis.impact_analysis,
                       metric_insights |-> metric_analysis.insights,
                       log_insights    |-> log_analysis.insights,
                       recommendations |-> incident_analysis.recommendations ])
    /\ pc' = "done"
    /\ UNCHANGED <<parser_vars, function_vars, analysis_result, incident, service, calls, bedrock_analysis,
                   log_locals, metric_locals, incident_analysis, metric_analysis,
                   log_analysis, raised>>

(***************************************************************************)
(* A function of an analyzer called on its own.                            *)
(***************************************************************************)
\* what a call of one function leaves alone
engine_state ==
    <<incident, service, calls, bedrock_analysis, log_locals, metric_locals,
      incident_analysis, metric_analysis, log_analysis, report, raised>>

(***************************************************************************)
(* BedrockService._invoke_with_retry.  An invocation of invoke_model       *)
(* answers with a response, with the ClientError ThrottlingException, with *)
(* another ClientError, or with an exception that is no ClientError.       *)
(***************************************************************************)
Response == "response"
Throttling == "ThrottlingException"
AccessDenied == "AccessDeniedException"
ConnectionLost == "EndpointConnectionError"

BedrockAnswers == {Response, Throttling, AccessDenied, ConnectionLost}

default_max_retries == 5

base_delay == 1

RECURSIVE Pow2(_)
Pow2(n) == IF n = 0 THEN 1 ELSE 2 * Pow2(n - 1)

\* time.random(): the module time has no attribute random
TimeRandom == [raised |-> <<"module 'time' has no attribute 'random'">>]

\* str(n) for n in 0..9
StrOfDigit(n) == <<"0", "1", "2", "3", "4", "5", "6", "7", "8", "9">>[n + 1]

MaximumRetriesReached(max_retries) ==
    <<"Maximum retries (", StrOfDigit(max_retries),
      ") reached for throttling. Please try again later.">>

\* the for loop of _invoke_with_retry from one value of attempt on, after the
\* given sleeps; delays are in whole seconds, the jitter left out
RECURSIVE InvokeFrom(_, _, _, _)
InvokeFrom(attempt, answers, max_retries, slept) ==
    IF attempt >= max_retries
    THEN [returned |-> None, invocations |-> attempt, sleeps |-> slept]
    ELSE LET answer == answers[attempt + 1]
             ended(o) == o @@ [invocations |-> attempt + 1, sleeps |-> slept]
         IN  IF answer = Response THEN ended([returned |-> <<Response>>])
             ELSE IF answer = Throttling
             THEN IF attempt = max_retries - 1
                  THEN ended([raised |-> MaximumRetriesReached(max_retries)])
                  ELSE IF "raised" \in DOMAIN TimeRandom
                  THEN ended([raised |-> TimeRandom.raised])
                  ELSE InvokeFrom(attempt + 1, answers, max_retries,
                                  Append(slept, base_delay * Pow2(attempt)))
             ELSE IF answer = AccessDenied THEN ended([raised |-> <<AccessDenied>>])
             ELSE ended([raised |-> <<"Error invoking Bedrock model: ", answer>>])

InvokeWithRetry(answers, max_retries) == InvokeFrom(0, answers, max_retries, <<>>)

\* BedrockService._invoke_with_retry(model_id, body, max_retries)
CallInvokeWithRetry ==
    /\ pc = "invoke"
    /\ invoked' = InvokeWithRetry(bedrock_answers, arg_max_retries)
    /\ pc' = "invoke_done"
    /\ UNCHANGED <<parser_vars, analysis_result, engine_state, arg_event1, arg_event2,
                   related, frame_vars, arg_max_retries, bedrock_answers>>

\* MetricAnalyzer._detect_anomalies(df)
CallDetectAnomalies ==
    /\ pc = "frame"
    /\ detected' = DetectAnomalies(arg_df)
    /\ pc' = "anomalies_done"
    /\ UNCHANGED <<parser_vars, analysis_result, engine_state, arg_event1, arg_event2,
                   related, arg_df, fitted, retry_vars>>

\* MetricAnalyzer._analyze_trends(df)
CallAnalyzeTrends ==
    /\ pc = "anomalies_done"
    /\ fitted' \in AnalyzeTrendsOutcomes(arg_df)
    /\ pc' = "trends_done"
    /\ UNCHANGED <<parser_vars, analysis_result, engine_state, arg_event1, arg_event2,
                   related, arg_df, detected, retry_vars>>

\* LogAnalyzer._are_events_related(event1, event2)
CallAreEventsRelated ==
    /\ pc = "related"
    /\ related' = AreEventsRelated(arg_event1, arg_event2)
    /\ pc' = "related_done"
    /\ UNCHANGED <<parser_vars, analysis_result, engine_state, arg_event1, arg_event2,
                   frame_vars, retry_vars>>

(***************************************************************************)
(* Completions given to the parser.  A block is a run of lines joined by   *)
(* "\n"; a completion is a run of blocks joined by a blank line.           *)
(***************************************************************************)
DescRoot    == <<"disk", SP, "full">>
DescImpact  == <<"checkout", SP, "down">>
ConfidenceLine(text) == ConfidenceLabel \o <<SP>> \o text \o <<"%">>
BulletLine(word)     == <<"-", SP, word>>

BlkRootCause     == Join(<<HeaderRootCause, DescRoot>>, <<NL>>)
BlkRootCauseOnly == HeaderRootCause
BlkImpact        == Join(<<HeaderImpact, DescImpact>>, <<NL>>)
BlkFindings      == Join(<<HeaderFindings, BulletLine("f1"), BulletLine("f2")>>, <<NL>>)
BlkRecommend     == Join(<<HeaderRecommendations, BulletLine("r1")>>, <<NL>>)
BlkConf85        == ConfidenceLine(<<"8", "5">>)
BlkConf100       == ConfidenceLine(<<"1", "0", "0">>)
BlkConf0         == ConfidenceLine(<<"0">>)
BlkConf150       == ConfidenceLine(<<"1", "5", "0">>)
BlkConfNeg       == ConfidenceLine(<<"-", "5">>)
BlkConfWord      == ConfidenceLine(<<"high">>)
BlkEvidence      == EvidenceLabel
BlkBullets       == <<SP>> \o BulletLine("e1") \o <<NL>> \o BulletLine("e2") \o <<SP>>
BlkBullet3       == BulletLine("e3")
BlkNote          == <<"note", NL>> \o HeaderRootCause
BlkBlank         == <<SP>>

BlockUniverse ==
    { BlkRootCause, BlkRootCauseOnly, BlkImpact, BlkFindings, BlkRecommend,
      BlkConf85, BlkConf100, BlkConf0, BlkConf150, BlkConfNeg, BlkConfWord,
      BlkEvidence, BlkBullets, BlkBullet3, BlkNote, BlkBlank }

ParserInputs == { Join(bs, <<NL, NL>>) : bs \in BoundedSeq(BlockUniverse, MaxSections) }

\* the root cause header written in other ways: without the number, in
\* capitals, in small letters, and with the description on the header line
HeaderVariants ==
    { <<"Root Cause Analysis:">>,
      <<"1.", SP, "ROOT CAUSE ANALYSIS:">>,
      <<"1.", SP, "root cause analysis:">>,
      <<"1)", SP, "Root Cause Analysis:">> }

VariantCompletions ==
    { Join(<<h, DescRoot>>, <<NL>>) : h \in HeaderVariants }

\* a bulleted block whose first bullet names its kind
BlkLabelledBullets ==
    Join(<<BulletLine("Evidence:") \o <<SP, "e1">>, BulletLine("e2")>>, <<NL>>)

LabelledBulletCompletions ==
    { Join(<<BlkRootCause, BlkBullet3, BlkLabelledBullets>>, <<NL, NL>>),
      Join(<<BlkImpact, BlkLabelledBullets>>, <<NL, NL>>) }

InlineCompletions ==
    { HeaderRootCause \o <<SP>> \o DescRoot,
      Join(<<HeaderRootCause \o <<SP>> \o DescRoot, BlkConf85>>, <<NL, NL>>) }

\* A completion laid out as the prompt template of IncidentAnalyzer.analyze
\* prescribes: the four numbered sections, separated by blank lines.
TemplateSection(header, desc, conf, ev) ==
    Join(<<header, desc, ConfidenceLine(conf), EvidenceLabel,
           BulletLine(ev[1]), BulletLine(ev[2])>>, <<NL>>)

TemplateList(header, items) ==
    Join(<<header>> \o MapSeq(items, BulletLine), <<NL>>)

TemplateCompletion(t) ==
    Join(<< TemplateSection(HeaderRootCause, t.root, <<"8", "5">>, t.root_ev),
            TemplateSection(HeaderImpact, t.impact, <<"9", "0">>, t.impact_ev),
            TemplateList(HeaderFindings, t.findings),
            TemplateList(HeaderRecommendations, t.recs) >>, <<NL, NL>>)

TemplateParams ==
    [ root      : {DescRoot},
      impact    : {DescImpact},
      root_ev   : {<<"e1", "e2">>, <<"e2", "e1">>},
      impact_ev : {<<"e3", "e4">>},
      findings  : {<<"f1", "f2">>, <<"f2", "f1">>, <<"f1">>},
      recs      : {<<"r1", "r2">>, <<"r2", "r1">>} ]

TemplateCompletions == { TemplateCompletion(t) : t \in TemplateParams }

(***************************************************************************)
(* The parser run on its own: analyze_text from the completion on.         *)
(***************************************************************************)
InitParser ==
    /\ completion \in ParserInputs \cup TemplateCompletions \cup VariantCompletions
                         \cup InlineCompletions \cup LabelledBulletCompletions
    /\ sections = <<>>
    /\ current_section = "none"
    /\ result = DefaultResult
    /\ parse_pc = "split"
    /\ analysis_result = NoAnalysisResult
    /\ EnginesIdle

NextParser == SplitCompletion \/ ParseSection \/ ParseReturn

SpecParser == InitParser /\ [][NextParser]_vars

(***************************************************************************)
(* LogAnalyzer.analyze run on its own over a list of Log entries.          *)
(***************************************************************************)
At(h, m, sec) ==
    [ year |-> 2024, month |-> 1, day |-> 1, hour |-> h, minute |-> m,
      second |-> sec, microsecond |-> 0 ]

DiskFull == <<"disk", SP, "full">>

LogEntry(ts, level, source, message) ==
    [timestamp |-> ts, level |-> level, source |-> <<source>>, message |-> message]

LogUniverse ==
    { LogEntry(At(10, 0, 0), "ERROR", "api", DiskFull),
      LogEntry(At(10, 0, 1), "CRITICAL", "api", DiskFull \o <<SP>>),
      LogEntry(At(10, 5, 0), "ERROR", "api", <<"timeout">>),
      LogEntry(At(10, 5, 1), "FATAL", "api", <<"timeout">>),
      LogEntry(At(10, 2, 0), "INFO", "web",
               <<"user", SP, "login", SP, "ok", SP, "from", SP, "mobile", SP,
                 "client", SP, "session", SP, "started">>),
      LogEntry(At(10, 2, 30), "INFO", "db", <<"retry", SP, "ERROR", ":", SP, "timeout">>),
      LogEntry([At(10, 5, 0) EXCEPT !.microsecond = 500000], "ERROR", "api", <<"timeout">>),
      LogEntry([At(23, 59, 59) EXCEPT !.year = 2023, !.month = 12, !.day = 31],
               "WARNING", "db", DiskFull),
      LogEntry(At(0, 0, 0), "INFO", "web", DiskFull),
      LogEntry(At(10, 3, 0), "ERROR", "db",
               <<"timeout", NL, "FATAL", ":", SP, "Disk", SP, "full">>) }

IncidentWith(metrics, logs) ==
    [ incident_id |-> "INC-1", title |-> "Checkout down", description |-> "Checkout fails",
      severity |-> "P1", start_time |-> At(10, 0, 0), end_time |-> None,
      metrics |-> metrics, logs |-> logs ]

InitLogs ==
    /\ ParserIdle
    /\ analysis_result = NoAnalysisResult
    /\ pc = "logs"
    /\ incident \in { IncidentWith(<<>>, logs) : logs \in BoundedSeq(LogUniverse, MaxLogs) }
    /\ service \in Services
    /\ EnginesFresh
    /\ FunctionsIdle

NextLogs == LogAnalyze \/ LogResume

SpecLogs == InitLogs /\ [][NextLogs]_vars

\* a b c ... : the words joined by single spaces
Words(ws) == Join([k \in 1..Len(ws) |-> <<ws[k]>>], <<SP>>)

EventTexts ==
    { <<>>,
      <<"-", SP, ":">>,
      Words(<<"a", "b", "c", "d", "e", "f">>),
      Words(<<"a", "b", "c", "g", "h", "i", "j">>),
      Words(<<"a", "b", "c", "d", "g", "h", "i">>),
      Words(<<"a", "b">>),
      Words(<<"a", "g">>),
      Words(<<"a", "b", "a", "b", "k", "l">>),
      Words(<<"disk", "full">>),
      <<"Disk", ":", "full", ".">>,
      <<"ERROR", "-", "disk", NL, "error">>,
      <<"01", "T", "10">>,
      <<"01", SP, "10", SP, "T">> }

InitRelated ==
    /\ ParserIdle
    /\ analysis_result = NoAnalysisResult
    /\ pc = "related"
    /\ incident = None
    /\ service = "BedrockService"
    /\ EnginesFresh
    /\ arg_event1 \in EventTexts
    /\ arg_event2 \in EventTexts
    /\ related = None
    /\ FramesIdle
    /\ RetryIdle

NextRelated == CallAreEventsRelated

SpecRelated == InitRelated /\ [][NextRelated]_vars

(***************************************************************************)
(* The frames _detect_anomalies and _analyze_trends are called on.         *)
(***************************************************************************)
MaxRows == 3
MaxSamples == 12

Sample(name, value) == [name |-> name, value |-> value]

\* every list of 1..MaxRows samples of two series
MixedLists ==
    UNION { [1..n -> {Sample(name, value) : name \in {"cpu", "mem"}, value \in {1, 2, 4}}] :
            n \in 1..MaxRows }

\* n samples of cpu, all of value 5 but the one at position at
Spiked(n, at, spike) == [i \in 1..n |-> Sample("cpu", IF i = at THEN spike ELSE 5)]

SpikedLists ==
    { Spiked(n, at, spike) : n \in 2..MaxSamples, at \in {1, 2}, spike \in {5, 6, 50} }

\* the samples 1, 2, ..., n of cpu, and the same falling
Ramps ==
    { [i \in 1..n |-> Sample("cpu", i)] : n \in 2..MaxSamples }
        \cup { [i \in 1..n |-> Sample("cpu", n - i)] : n \in 2..MaxSamples }

\* four samples of 10 and one of 100
OneHighOfFive == [i \in 1..5 |-> Sample("cpu", IF i = 5 THEN 100 ELSE 10)]

MetricDicts == MixedLists \cup SpikedLists \cup Ramps \cup {OneHighOfFive}

InitMetrics ==
    /\ ParserIdle
    /\ analysis_result = NoAnalysisResult
    /\ pc = "frame"
    /\ incident = None
    /\ service = "BedrockService"
    /\ EnginesFresh
    /\ arg_event1 = <<>>
    /\ arg_event2 = <<>>
    /\ related = None
    /\ arg_df \in {DataFrameOfDicts(metrics) : metrics \in MetricDicts}
    /\ detected = None
    /\ fitted = None
    /\ RetryIdle

NextMetrics ==
    \/ CallDetectAnomalies
    \/ CallAnalyzeTrends

SpecMetrics == InitMetrics /\ [][NextMetrics]_vars

(***************************************************************************)
(* The calls of _invoke_with_retry: every max_retries up to the default    *)
(* and every way the invocations it can make may answer.                   *)
(***************************************************************************)
InitRetry ==
    /\ ParserIdle
    /\ analysis_result = NoAnalysisResult
    /\ pc = "invoke"
    /\ incident = None
    /\ service = "BedrockService"
    /\ EnginesFresh
    /\ arg_event1 = <<>>
    /\ arg_event2 = <<>>
    /\ related = None
    /\ FramesIdle
    /\ arg_max_retries \in 1..default_max_retries
    /\ bedrock_answers \in [1..arg_max_retries -> BedrockAnswers]
    /\ invoked = None

NextRetry == CallInvokeWithRetry

SpecRetry == InitRetry /\ [][NextRetry]_vars

Metric(name, value, ts) == [name |-> name, value |-> value, timestamp |-> ts, tags |-> None]

MetricLists ==
    { <<>>,
      <<Metric("cpu", 40, At(10, 0, 0)), Metric("cpu", 90, At(10, 1, 0))>> }

LogLists ==
    { <<>>,
      <<LogEntry(At(10, 0, 0), "ERROR", "api", DiskFull),
        LogEntry(At(10, 0, 1), "CRITICAL", "api", DiskFull)>> }

\* incidents validate_incident_data rejects
RejectedIncidents ==
    { [IncidentWith(<<>>, <<>>) EXCEPT !.title = ""],
      [IncidentWith(<<>>, <<>>) EXCEPT !.severity = "P9"],
      [IncidentWith(<<>>, <<>>) EXCEPT !.end_time = At(9, 59, 59)],
      IncidentWith(<<>>, <<LogEntry(At(10, 0, 0), "ERROR", "api", <<>>)>>) }

Incidents ==
    { IncidentWith(metrics, logs) : metrics \in MetricLists, logs \in LogLists }
        \cup { [IncidentWith(<<>>, <<>>) EXCEPT !.end_time = At(10, 30, 0)] }
        \cup RejectedIncidents

InitPipeline ==
    /\ ParserIdle
    /\ analysis_result = NoAnalysisResult
    /\ pc = "start"
    /\ incident \in Incidents
    /\ service \in Services
    /\ EnginesFresh
    /\ FunctionsIdle

NextPipeline ==
    \/ Validate
    \/ IncidentAnalyze
    \/ IncidentResume
    \/ MetricAnalyze
    \/ MetricResume
    \/ LogAnalyze
    \/ LogResume
    \/ Combine

SpecPipeline == InitPipeline /\ [][NextPipeline]_vars

(***************************************************************************)
(* Properties of the parser.                                               *)
(***************************************************************************)
Headers == {HeaderRootCause, HeaderImpact, HeaderFindings, HeaderRecommendations}

\* some block of the text starts (first non-blank line) with a section header
HeaderRecognised(text) ==
    \E k \in 1..Len(Split(text, <<NL, NL>>)) :
        LET lines == SectionLines(Split(text, <<NL, NL>>)[k])
        IN  lines # <<>> /\ \E h \in Headers : Contains(lines[1], h)

\* C1: the parse of any completion ends by returning a result, never the error
\* payload, and a completion in which no section header is recognised (the
\* empty one included) yields every field at its default.
C1_ParserTotal ==
    parse_pc = "returned" =>
        /\ "error" \notin DOMAIN analysis_result
        /\ ~HeaderRecognised(completion) => analysis_result = DefaultResult

C1_Witness ==
    /\ parse_pc = "returned"
    /\ ~HeaderRecognised(completion)
    /\ Contains(completion, ConfidenceLabel)
    /\ Contains(completion, Bullet)
    /\ Contains(completion, HeaderRootCause)

\* C2: a completion laid out as the prompt template prescribes parses to the
\* description lines, confidences 0.85 and 0.90, the two evidence bullets of
\* each section in order, and the findings and recommendations in input order.
C2_RoundTrip ==
    \A t \in TemplateParams :
        (parse_pc = "returned" /\ completion = TemplateCompletion(t)) =>
            analysis_result =
                [ root_cause            |-> t.root,
                  root_cause_confidence |-> 85,
                  root_cause_evidence   |-> MapSeq(t.root_ev, LAMBDA w : <<w>>),
                  impact_analysis       |-> t.impact,
                  impact_confidence     |-> 90,
                  impact_evidence       |-> MapSeq(t.impact_ev, LAMBDA w : <<w>>),
                  key_findings          |-> MapSeq(t.findings, LAMBDA w : <<w>>),
                  recommendations       |-> MapSeq(t.recs, LAMBDA w : <<w>>) ]

\* decimal digits of a natural number, as text
RECURSIVE DecimalText(_)
DecimalText(n) ==
    LET d == <<"0", "1", "2", "3", "4", "5", "6", "7", "8", "9">>[(n % 10) + 1]
    IN  IF n < 10 THEN <<d>> ELSE DecimalText(n \div 10) \o <<d>>

IsConfidenceBlock(section, text) == SectionLines(section) = <<ConfidenceLine(text)>>

NonNumericTexts == {<<"high">>, <<>>, <<"8", "x">>}

FirstLineIsHeader(section) ==
    LET lines == SectionLines(section)
    IN  lines # <<>> /\ \E h \in Headers : Contains(lines[1], h)

\* C21: the current section starts as none and changes only at a block whose
\* first line is a recognised section header: a confidence line, an
\* 'Evidence:' line, a bulleted block or any other text leaves it as it was.
C21_SectionKept ==
    [][ /\ parse_pc = "split" => current_section' = "none"
        /\ (parse_pc = "loop" /\ sections # <<>> /\ ~FirstLineIsHeader(Head(sections))) =>
              current_section' = current_section
      ]_vars

\* impact is still the current section after a confidence line and a
\* bulleted block
C21_Witness ==
    /\ parse_pc = "loop"
    /\ sections = <<>>
    /\ completion = Join(<<BlkImpact, BlkConf85, BlkBullets>>, <<NL, NL>>)
    /\ current_section = "impact"
    /\ result.impact_confidence = 85
    /\ result.impact_evidence = <<<<"e1">>, <<"e2">>>>

ParseEnded == parse_pc = "loop" /\ sections = <<>>

\* C22: a section header is recognised whatever its letter case and with or
\* without its number prefix, and the text after the colon on the header
\* line, or else the second line of the block, is the section's description.
C22_HeaderTolerant ==
    ParseEnded =>
        /\ completion \in VariantCompletions =>
              /\ current_section = "root_cause"
              /\ result.root_cause = DescRoot
        /\ completion \in InlineCompletions =>
              /\ current_section = "root_cause"
              /\ result.root_cause = DescRoot

\* the header can be written in another case or without its number
C22_VariantsRecognised ==
    (ParseEnded /\ completion \in VariantCompletions) => current_section = "root_cause"

\* the text after the colon on the header line is the description
C22_InlineCaptured ==
    (ParseEnded /\ completion \in InlineCompletions) => result.root_cause = DescRoot

\* the bullets of a block, the header line of a header block left out
BlockBullets(section) ==
    LET lines == SectionLines(section)
    IN  BulletItems(IF FirstLineIsHeader(section) THEN Tail(lines) ELSE lines)

\* C23: while the current section is findings (or recommendations) every
\* bulleted line met, in the header's block or in a later block before the
\* next header, is appended to key_findings (or recommendations) in order,
\* stripped of its bullet marker: none is lost or replaced.
C23_BulletsAppended ==
    [][ (parse_pc = "loop" /\ sections # <<>> /\ parse_pc' = "loop") =>
          LET bullets == BlockBullets(Head(sections))
              header  == FirstLineIsHeader(Head(sections))
          IN  /\ current_section' = "findings" =>
                    \/ result'.key_findings = result.key_findings \o bullets
                    \/ header /\ result'.key_findings = bullets
              /\ current_section' = "recommendations" =>
                    \/ result'.recommendations = result.recommendations \o bullets
                    \/ header /\ result'.recommendations = bullets
      ]_vars

\* the bullets of a later block of the findings section are kept
C23_LaterBlockKept ==
    (ParseEnded /\ completion = Join(<<BlkFindings, BlkBullet3>>, <<NL, NL>>)) =>
        result.key_findings = <<<<"f1">>, <<"f2">>, <<"e3">>>>

\* every line of the block starts with a bullet marker
AllBulleted(section) ==
    LET lines == SectionLines(section)
    IN  lines # <<>> /\ \A k \in 1..Len(lines) : StartsWith(lines[k], Bullet)

\* the lines of the block without their bullet markers
Unbulleted(section) ==
    LET lines == SectionLines(section)
    IN  [k \in 1..Len(lines) |-> Strip(StripChars(lines[k], {"-", SP}))]

\* the block replaces the evidence of the current section and nothing else
EvidenceReplaced(section) ==
    /\ parse_pc' = "loop"
    /\ current_section' = current_section
    /\ IF current_section = "root_cause"
       THEN result' = [result EXCEPT !.root_cause_evidence = Unbulleted(section)]
       ELSE result' = [result EXCEPT !.impact_evidence = Unbulleted(section)]

\* C24: while the current section is root_cause or impact, a block in which
\* every line starts with a bullet marker replaces that section's evidence
\* with the block's bullets in order, and leaves the other section's
\* evidence, the descriptions, the confidences, key_findings and
\* recommendations as they were.
C24_EvidenceOverwritten ==
    [][ (/\ parse_pc = "loop"
         /\ sections # <<>>
         /\ current_section \in {"root_cause", "impact"}
         /\ AllBulleted(Head(sections))) => EvidenceReplaced(Head(sections))
      ]_vars

\* the first line of the block holds none of the labels an earlier branch
\* of the parser tests for
NoLabelInFirstLine(section) ==
    LET first_line == SectionLines(section)[1]
    IN  /\ ~FirstLineIsHeader(section)
        /\ ~Contains(first_line, ConfidenceLabel)
        /\ ~Contains(first_line, EvidenceLabel)

\* a bulleted block without a label in its first line does replace the
\* evidence of the current section and nothing else
UnlabelledEvidenceOverwritten ==
    [][ (/\ parse_pc = "loop"
         /\ sections # <<>>
         /\ current_section \in {"root_cause", "impact"}
         /\ AllBulleted(Head(sections))
         /\ NoLabelInFirstLine(Head(sections))) => EvidenceReplaced(Head(sections))
      ]_vars

\* evidence e1, e2 was replaced by e3, not added to
EvidenceOverwrittenReached ==
    /\ ParseEnded
    /\ completion = Join(<<BlkRootCause, BlkBullets, BlkBullet3>>, <<NL, NL>>)
    /\ result.root_cause_evidence = <<<<"e3">>>>

\* C4: after parsing any completion both confidences lie in [0, 1].
C4_ConfidenceClamped ==
    parse_pc = "returned" /\ "error" \notin DOMAIN analysis_result =>
        /\ analysis_result.root_cause_confidence \in 0..100
        /\ analysis_result.impact_confidence \in 0..100

(***************************************************************************)
(* Properties of LogAnalyzer, under SpecLogs.                              *)
(***************************************************************************)
HasLogs == "logs" \in DOMAIN incident

\* the strings _analyze_error_patterns and _analyze_correlations are given
LogStrings == MapSeq(incident.logs, LogString)

\* the two functions have returned what they made of LogStrings, and analyze is
\* about to hand the strings to the collaborator
LogsAnalyzed == HasLogs /\ pc = "logs_await"

EmptyLogAnalysis == [insights |-> <<>>, error_patterns |-> <<>>, correlation_events |-> <<>>]

\* C7: LogAnalyzer.analyze on an empty log list never calls the collaborator,
\* never waits for it or fails, and what it returns has empty error_patterns,
\* empty correlation_events and empty insights.
C7_EmptyLogs ==
    (HasLogs /\ incident.logs = <<>>) =>
        /\ calls["logs"] = 0
        /\ pc \in {"logs", "logs_done"}
        /\ raised = None
        /\ pc = "logs_done" => log_analysis = EmptyLogAnalysis

C7_Witness ==
    /\ HasLogs /\ incident.logs = <<>>
    /\ pc = "logs_done"
    /\ log_analysis = EmptyLogAnalysis
    /\ calls["logs"] = 0

\* the matched lines, as the messages (trimmed) and levels read from them
MatchedLines == ErrorMessages(LogStrings)

\* position among the matched lines ms of the first one whose message is msg
FirstSeen(ms, msg) ==
    CHOOSE i \in 1..Len(ms) :
        /\ ms[i].message = msg
        /\ \A j \in 1..(i - 1) : ms[j].message # msg

\* C8: the error patterns are ordered by frequency descending, and of two
\* patterns of equal frequency the one whose message was seen first in the
\* input comes first.
C8_PatternOrder ==
    LogsAnalyzed =>
        LET ms    == MatchedLines
            first == [k \in 1..Len(error_patterns) |-> FirstSeen(ms, error_patterns[k].message)]
        IN  \A k, l \in 1..Len(error_patterns) :
                k < l =>
                    /\ error_patterns[k].frequency >= error_patterns[l].frequency
                    /\ error_patterns[k].frequency = error_patterns[l].frequency
                           => first[k] < first[l]

\* a tie between two patterns, and a more frequent pattern that was seen later
\* than a less frequent one
C8_Witness ==
    /\ LogsAnalyzed
    /\ \E k, l \in 1..Len(error_patterns) :
          k < l /\ error_patterns[k].frequency = error_patterns[l].frequency
    /\ \E k, l \in 1..Len(error_patterns) :
          /\ k < l
          /\ error_patterns[k].frequency > error_patterns[l].frequency
          /\ FirstSeen(MatchedLines, error_patterns[k].message)
                > FirstSeen(MatchedLines, error_patterns[l].message)

\* the matched lines of ms whose message is msg
Occurrences(ms, msg) == {i \in 1..Len(ms) : ms[i].message = msg}

RECURSIVE SumFrequencies(_)
SumFrequencies(patterns) ==
    IF patterns = <<>> THEN 0
    ELSE Head(patterns).frequency + SumFrequencies(Tail(patterns))

\* C9: there is exactly one pattern per distinct trimmed message of the matched
\* lines; its frequency is the number of matched lines with that message (at
\* least 1), its level the level of the first of them, and the frequencies sum
\* to the number of matched lines.
C9_PatternGroups ==
    LogsAnalyzed =>
        LET ms == MatchedLines
        IN  /\ \A k, l \in 1..Len(error_patterns) :
                  k # l => error_patterns[k].message # error_patterns[l].message
            /\ {error_patterns[k].message : k \in 1..Len(error_patterns)}
                  = {Strip(ms[i].message) : i \in 1..Len(ms)}
            /\ \A k \in 1..Len(error_patterns) :
                  /\ error_patterns[k].frequency >= 1
                  /\ error_patterns[k].frequency
                        = Cardinality(Occurrences(ms, error_patterns[k].message))
                  /\ error_patterns[k].level
                        = ms[FirstSeen(ms, error_patterns[k].message)].level
            /\ SumFrequencies(error_patterns) = Len(ms)

\* a message seen at two levels, grouped with another pattern beside it
C9_Witness ==
    /\ LogsAnalyzed
    /\ Len(error_patterns) >= 2
    /\ \E k \in 1..Len(error_patterns) :
          /\ error_patterns[k].frequency >= 2
          /\ \E i \in Occurrences(MatchedLines, error_patterns[k].message) :
                MatchedLines[i].level # error_patterns[k].level

\* seconds of the timestamp _analyze_correlations reads from an entry's string
EntrySeconds(log) == ToSeconds(log.timestamp)

\* of entries a < b of the input, the pair in timestamp order (equal
\* timestamps keep the order of the input)
InTimestampOrder(a, b) ==
    IF EntrySeconds(incident.logs[a]) <= EntrySeconds(incident.logs[b])
    THEN <<a, b>>
    ELSE <<b, a>>

\* the pairs of entries the window and the relatedness test let through
CorrelatedPairs ==
    LET n       == Len(incident.logs)
        seconds == [a \in 1..n |-> EntrySeconds(incident.logs[a])]
        strings == LogStrings
        ordered == {InTimestampOrder(q[1], q[2]) :
                       q \in {r \in (1..n) \X (1..n) : r[1] < r[2]}}
    IN  {p \in ordered :
            /\ seconds[p[2]] - seconds[p[1]] <= 300
            /\ AreEventsRelated(strings[p[1]], strings[p[2]])}

PairEvent(p) ==
    LET first  == incident.logs[p[1]]
        second == incident.logs[p[2]]
    IN  [ event1     |-> LogString(first),
          event2     |-> LogString(second),
          time_diff  |-> EntrySeconds(second) - EntrySeconds(first),
          timestamp1 |-> IsoFormat([first.timestamp EXCEPT !.microsecond = 0]),
          timestamp2 |-> IsoFormat([second.timestamp EXCEPT !.microsecond = 0]) ]

\* With every timestamp cut to its whole second, the correlation events are,
\* one for one, the pairs of entries (first before second in timestamp order,
\* adjacent or not) at most 300 seconds apart that pass the relatedness test;
\* no other pair has an event.
WholeSecondCorrelationPairs ==
    LogsAnalyzed =>
        LET pairs    == CorrelatedPairs
            expected == [p \in pairs |-> PairEvent(p)]
            emitted  == {correlation_events[k] : k \in 1..Len(correlation_events)}
        IN  /\ Len(correlation_events) = Cardinality(pairs)
            /\ \A e \in emitted \cup {expected[p] : p \in pairs} :
                  Cardinality({k \in 1..Len(correlation_events) : correlation_events[k] = e})
                      = Cardinality({p \in pairs : expected[p] = e})

\* three entries, every pair of them an event: one pair exactly 300 seconds
\* apart, between entries that are not neighbours in timestamp order
WholeSecondCorrelationWitness ==
    /\ LogsAnalyzed
    /\ Len(incident.logs) = 3
    /\ Len(correlation_events) = 3
    /\ \E k \in 1..3 : correlation_events[k].time_diff = 300
    /\ \E k, l \in 1..3 :
          k # l /\ correlation_events[k].event1 = correlation_events[l].event1

(***************************************************************************)
(* Properties of analyze_incident, under SpecPipeline.                     *)
(***************************************************************************)
\* C5: when the result handed to IncidentAnalyzer.analyze is an error payload,
\* the analysis fails, no IncidentAnalysis is returned, and the error raised
\* carries the raw completion text of the payload.
C5_ErrorCarriesRawCompletion ==
    (pc = "failed" /\ "error" \in DOMAIN analysis_result) =>
        /\ raised # None
        /\ incident_analysis = None
        /\ report = None
        /\ Contains(raised.message, analysis_result.raw_completion)

\* C6: the report analyze_incident returns carries the key_findings and the
\* recommendations of the parse of the incident completion, each the same list
\* in the same order.
C6_ReportCarriesFindings ==
    pc = "done" =>
        /\ "recommendations" \in DOMAIN report
        /\ report.recommendations = analysis_result.recommendations
        /\ "key_findings" \in DOMAIN report
        /\ report.key_findings = analysis_result.key_findings

(***************************************************************************)
(* Properties of _are_events_related, under SpecRelated.                   *)
(***************************************************************************)
\* C11: two events are related iff the union of their lower-cased word sets
\* is not empty and the intersection is more than 0.30 of the union; at
\* exactly 0.30, or with an empty union, they are not related.
C11_RelatedThreshold ==
    pc = "related_done" =>
        LET shared == Cardinality(Terms(arg_event1) \cap Terms(arg_event2))
            all    == Cardinality(Terms(arg_event1) \cup Terms(arg_event2))
        IN  /\ related \in BOOLEAN
            /\ related <=> (all > 0 /\ 10 * shared > 3 * all)
            /\ all = 0 => ~related
            /\ (all > 0 /\ 10 * shared = 3 * all) => ~related

\* a pair at exactly 3 shared words of 10
C11_Witness ==
    /\ pc = "related_done"
    /\ Cardinality(Terms(arg_event1) \cap Terms(arg_event2)) = 3
    /\ Cardinality(Terms(arg_event1) \cup Terms(arg_event2)) = 10
    /\ related = FALSE

(***************************************************************************)
(* Properties of the correlations of LogAnalyzer.analyze, under SpecLogs.  *)
(***************************************************************************)
\* some correlation event pairs entries a and b of the input, in either order
Paired(a, b) ==
    \E k \in 1..Len(correlation_events) :
        \/ /\ correlation_events[k].event1 = LogString(incident.logs[a])
           /\ correlation_events[k].event2 = LogString(incident.logs[b])
        \/ /\ correlation_events[k].event1 = LogString(incident.logs[b])
           /\ correlation_events[k].event2 = LogString(incident.logs[a])

\* C12: two entries whose messages share no word are paired by no correlation
\* event, however close their timestamps and whatever their levels and sources.
C12_DisjointNeverPaired ==
    LogsAnalyzed =>
        \A a, b \in 1..Len(incident.logs) :
            (a # b /\ Terms(incident.logs[a].message) \cap Terms(incident.logs[b].message) = {})
                => ~Paired(a, b)

\* C13: two entries with identical messages and timestamps 1 second apart are
\* paired by a correlation event, whatever their levels, sources, date and time.
C13_IdenticalPaired ==
    LogsAnalyzed =>
        \A a, b \in 1..Len(incident.logs) :
            ( /\ a # b
              /\ incident.logs[a].message = incident.logs[b].message
              /\ incident.logs[a].timestamp.microsecond = incident.logs[b].timestamp.microsecond
              /\ ToSeconds(incident.logs[b].timestamp) - ToSeconds(incident.logs[a].timestamp) = 1 )
                => Paired(a, b)

\* timestamp b minus timestamp a, as whole seconds and microseconds
Elapsed(a, b) ==
    [ seconds      |-> ToSeconds(b) - ToSeconds(a),
      microseconds |-> b.microsecond - a.microsecond ]

\* the timestamps of entries a and b are at most 300 seconds apart
WithinWindow(a, b) ==
    LET elapsed == Elapsed(incident.logs[a].timestamp, incident.logs[b].timestamp)
    IN  /\ elapsed.seconds <= 299 \/ (elapsed.seconds = 300 /\ elapsed.microseconds <= 0)
        /\ elapsed.seconds >= -299 \/ (elapsed.seconds = -300 /\ elapsed.microseconds >= 0)

\* C10: there is exactly one correlation event for every pair of entries whose
\* timestamps differ by at most 300 seconds and that pass the relatedness
\* test, and no event for any other pair.
C10_PairsInsideWindow ==
    LogsAnalyzed =>
        LET pairs == {p \in (1..Len(incident.logs)) \X (1..Len(incident.logs)) : p[1] < p[2]}
            inside == {p \in pairs :
                          /\ WithinWindow(p[1], p[2])
                          /\ AreEventsRelated(LogString(incident.logs[p[1]]),
                                              LogString(incident.logs[p[2]]))}
        IN  /\ \A p \in pairs : Paired(p[1], p[2]) <=> p \in inside
            /\ Len(correlation_events) = Cardinality(inside)

\* C14: in every correlation event the entry reported as event1 is no later
\* than the entry reported as event2, and time_diff is non-negative and is the
\* difference of the two entries' timestamps in seconds.
C14_OrderedTimeDiff ==
    LogsAnalyzed =>
        \A k \in 1..Len(correlation_events) :
            \E a, b \in 1..Len(incident.logs) :
                LET elapsed == Elapsed(incident.logs[a].timestamp, incident.logs[b].timestamp)
                IN  /\ a # b
                    /\ correlation_events[k].event1 = LogString(incident.logs[a])
                    /\ correlation_events[k].event2 = LogString(incident.logs[b])
                    /\ \/ elapsed.seconds > 0
                       \/ elapsed.seconds = 0 /\ elapsed.microseconds >= 0
                    /\ correlation_events[k].time_diff >= 0
                    /\ correlation_events[k].time_diff = elapsed.seconds
                    /\ elapsed.microseconds = 0

(***************************************************************************)
(* Properties of _detect_anomalies and _analyze_trends, under SpecMetrics. *)
(***************************************************************************)
\* the series of the frame: its column of values
FrameValues == arg_df.data[2]

AnomaliesReturned == pc \in {"anomalies_done", "trends_done"}

\* the positions, from 0, whose deviation from the mean is above 3 sample
\* standard deviations: with S the sum and Q the sum of squares of n values,
\* (x - S/n)^2 > 9 * (Q - S^2/n) / (n - 1)
ThreeSigmaOutliers(xs) ==
    LET n == Len(xs)
        S == SumSeq(xs)
        Q == SumSeq([i \in 1..n |-> xs[i] * xs[i]])
    IN  { i - 1 : i \in { k \in 1..n :
                            (n * xs[k] - S) * (n * xs[k] - S) * (n - 1)
                                > 9 * n * (n * Q - S * S) } }

\* C15: _detect_anomalies reports a sample iff its absolute deviation from the
\* mean of the series is strictly above 3 times the sample standard deviation
\* (n - 1 divisor); a series of equal values has no anomaly at any length.
C15_ThreeSigma ==
    AnomaliesReturned =>
        LET xs       == FrameValues
            outliers == ThreeSigmaOutliers(xs)
        IN  /\ Len(detected) <= 1
            /\ detected = <<>> <=> outliers = {}
            /\ detected # <<>> =>
                  LET indices == detected[1].anomaly_indices
                  IN  /\ {indices[k] : k \in 1..Len(indices)} = outliers
                      /\ Len(indices) = Cardinality(outliers)
                      /\ detected[1].values = [k \in 1..Len(indices) |-> xs[indices[k] + 1]]
            /\ (\A i, j \in 1..Len(xs) : xs[i] = xs[j]) => detected = <<>>

\* a spike among 10 or more equal samples is reported, and it alone
C15_Witness ==
    /\ pc = "anomalies_done"
    /\ Len(FrameValues) >= 11
    /\ Len(detected) = 1
    /\ detected[1].anomaly_indices = <<0>>
    /\ detected[1].values = <<50>>

\* C30: with the 3-sigma rule over the sample standard deviation no series
\* of 10 or fewer samples has an anomaly, whatever its values; the series
\* [10,10,10,10,100] (mean 28) yields no anomaly record.
C30_NoAnomalyUpToTen ==
    AnomaliesReturned =>
        /\ Len(FrameValues) <= 10 => detected = <<>>
        /\ FrameValues = <<10, 10, 10, 10, 100>> =>
              /\ SumSeq(FrameValues) = 28 * Len(FrameValues)
              /\ detected = <<>>

\* the series [10,10,10,10,100] went through _detect_anomalies
C30_Witness ==
    /\ pc = "anomalies_done"
    /\ FrameValues = <<10, 10, 10, 10, 100>>
    /\ detected = <<>>

\* ten samples with one spike have no anomaly, eleven have one
TenSamplesNoAnomaly ==
    AnomaliesReturned =>
        /\ FrameValues = [i \in 1..10 |-> IF i = 1 THEN 50 ELSE 5] => detected = <<>>
        /\ FrameValues = [i \in 1..11 |-> IF i = 1 THEN 50 ELSE 5] => detected # <<>>

TrendsReturned == pc = "trends_done" /\ "returned" \in DOMAIN fitted

\* the series named in the frame, and the values of one of them in order
SeriesNames == {arg_df.data[1][r] : r \in 1..Len(arg_df.data[1])}

SeriesValues(name) ==
    LET rows == SelectSeq([r \in 1..Len(FrameValues) |-> r],
                          LAMBDA r : arg_df.data[1][r] = name)
    IN  [k \in 1..Len(rows) |-> FrameValues[rows[k]]]

SameFraction(a, b) == a.num * b.den = b.num * a.den

\* C16: anomaly and trend detection are per named series: the trend reported
\* for a series is the line through that series' own values, whatever the
\* samples of the other series in the same list are.
C16_PerSeries ==
    TrendsReturned =>
        \A name \in SeriesNames :
            LET own == SeriesValues(name)
            IN  Len(own) >= 2 =>
                    \E k \in 1..Len(fitted.returned) :
                        /\ SameFraction(fitted.returned[k].slope, Polyfit(own).slope)
                        /\ SameFraction(fitted.returned[k].intercept, Polyfit(own).intercept)

\* the sum over the samples of weight(i) * (y[i] - intercept - slope * i),
\* i from 0, times the two denominators
WeightedResiduals(ys, slope, intercept, weight(_)) ==
    SumSeq([k \in 1..Len(ys) |->
               weight(k - 1) * (ys[k] * slope.den * intercept.den
                                   - intercept.num * slope.den
                                   - slope.num * intercept.den * (k - 1))])

Unit(i) == 1

Index(i) == i

\* C17: _analyze_trends fits the least-squares line of the values against
\* the sample index 0..n-1: the residuals sum to zero and are orthogonal to
\* the index; [1,2,3,4,5] gives slope 1, intercept 1, 'increasing'; the
\* direction is 'increasing' iff slope > 0 and 'decreasing' otherwise, a
\* slope of 0 included.
C17_IndexLeastSquares ==
    (TrendsReturned /\ Len(FrameValues) >= 2) =>
        /\ Len(fitted.returned) = 1
        /\ LET trend == fitted.returned[1]
                ys    == FrameValues
            IN  /\ trend.slope.den # 0
                /\ trend.intercept.den # 0
                /\ Len(ys) <= 6 =>
                      /\ WeightedResiduals(ys, trend.slope, trend.intercept, Unit) = 0
                      /\ WeightedResiduals(ys, trend.slope, trend.intercept, Index) = 0
                /\ trend.direction = (IF trend.slope.num * trend.slope.den > 0
                                          THEN "increasing" ELSE "decreasing")
                /\ trend.slope.num = 0 => trend.direction = "decreasing"
                /\ ys = <<1, 2, 3, 4, 5>> =>
                      /\ trend.slope.num = trend.slope.den
                      /\ trend.intercept.num = trend.intercept.den
                      /\ trend.direction = "increasing"

\* the trend of the series 1, 2, 3, 4, 5
C17_Witness ==
    /\ TrendsReturned
    /\ FrameValues = <<1, 2, 3, 4, 5>>
    /\ Len(fitted.returned) = 1
    /\ fitted.returned[1].direction = "increasing"

\* a flat series is reported as decreasing
FlatSeriesDecreasing ==
    /\ TrendsReturned
    /\ Len(FrameValues) >= 2
    /\ fitted.returned[1].slope.num = 0
    /\ fitted.returned[1].direction = "decreasing"

\* C18: a series of fewer than 2 samples is skipped: no Trend and no Anomaly
\* record is emitted for it and no error is raised.
C18_ShortSeriesSkipped ==
    (pc = "trends_done" /\ Len(FrameValues) < 2) =>
        /\ detected = <<>>
        /\ "raised" \notin DOMAIN fitted
        /\ fitted.returned = <<>>

(***************************************************************************)
(* Properties of analyze_incident, under SpecPipeline.                     *)
(***************************************************************************)
\* C19: in a run of analyze_incident each of IncidentAnalyzer, MetricAnalyzer
\* and LogAnalyzer sends at most one request to the model collaborator.
C19_OneRequestPerEngine ==
    \A e \in Engines : calls[e] \in {0, 1}

\* a run that went through the three engines, each with one request made
C19_Witness ==
    /\ pc = "done"
    /\ incident.metrics # <<>>
    /\ incident.logs # <<>>
    /\ \A e \in Engines : calls[e] = 1

(***************************************************************************)
(* Properties of _invoke_with_retry, under SpecRetry.                      *)
(***************************************************************************)
\* the first invocation that is not throttled, max_retries + 1 if none
FirstNotThrottled ==
    LET settled == {k \in 1..arg_max_retries : bedrock_answers[k] # Throttling}
    IN  IF settled = {} THEN arg_max_retries + 1
        ELSE CHOOSE k \in settled : \A j \in settled : k <= j

\* C20: on a throttling answer _invoke_with_retry sleeps with exponential
\* backoff and invokes again, up to max_retries invocations in all; the
\* response of the first invocation that succeeds is returned; when all
\* max_retries invocations are throttled a terminal failure is raised; an
\* error that is not throttling is raised without another invocation.
C20_RetriesThrottling ==
    pc = "invoke_done" =>
        LET first == FirstNotThrottled
        IN  /\ invoked.invocations <= arg_max_retries
            /\ first > arg_max_retries =>
                  /\ "raised" \in DOMAIN invoked
                  /\ invoked.invocations = arg_max_retries
            /\ first <= arg_max_retries =>
                  /\ invoked.invocations = first
                  /\ Len(invoked.sleeps) = first - 1
                  /\ \A k \in 1..Len(invoked.sleeps) :
                         invoked.sleeps[k] = base_delay * Pow2(k - 1)
                  /\ IF bedrock_answers[first] = Response
                     THEN "returned" \in DOMAIN invoked /\ invoked.returned = <<Response>>
                     ELSE "raised" \in DOMAIN invoked /\ invoked.raised # TimeRandom.raised

\* whatever the answers, a call ends after one invocation
SingleInvocation == pc = "invoke_done" => invoked.invocations = 1

\* C25: when the collaborator's answer to LogAnalyzer.analyze is an error
\* payload (a mapping with an 'error' key), the log analysis fails with an
\* error: it does not return a LogAnalysis.
C25_LogErrorPayloadFatal ==
    (pc \in {"logs_done", "done"} /\ incident.logs # <<>>) =>
        "error" \notin DOMAIN bedrock_analysis["logs"]

NoRequestMade == \A e \in Engines : calls[e] = 0

\* C26: analyze_incident validates the incident before anything else: when
\* validate_incident_data rejects it, the error is raised and no engine has
\* made a request to the model collaborator.
C26_ValidatedFirst ==
    /\ pc = "start" => (NoRequestMade /\ raised = None)
    /\ ValidationError(incident) # <<>> =>
          /\ pc \in {"start", "failed"}
          /\ NoRequestMade
          /\ pc = "failed" =>
                raised = [type |-> "ValueError", message |-> ValidationError(incident)]

\* a rejected incident: the error is raised with no request made
C26_Witness ==
    /\ pc = "failed"
    /\ ValidationError(incident) = <<"End time cannot be before start time">>
    /\ raised.type = "ValueError"
    /\ NoRequestMade

ErrorEntriesSaying(message) ==
    { i \in 1..Len(incident.logs) :
        /\ incident.logs[i].level \in {"ERROR", "FATAL", "CRITICAL", "FAILED"}
        /\ Strip(incident.logs[i].message) = message }

\* C29: only error-level entries feed the error patterns: an entry whose
\* level is not ERROR, FATAL, CRITICAL or FAILED contributes nothing,
\* whatever its message and source hold, and every entry of one of those
\* levels contributes exactly one occurrence, of its trimmed message.
C29_OnlyErrorLevels ==
    LogsAnalyzed =>
        /\ \A k \in 1..Len(error_patterns) :
              error_patterns[k].frequency
                  = Cardinality(ErrorEntriesSaying(error_patterns[k].message))
        /\ \A i \in 1..Len(incident.logs) :
              incident.logs[i].level \in {"ERROR", "FATAL", "CRITICAL", "FAILED"} =>
                  \E k \in 1..Len(error_patterns) :
                      error_patterns[k].message = Strip(incident.logs[i].message)

\* an entry of level INFO contributes nothing to the error patterns
C29_InfoContributesNothing ==
    (LogsAnalyzed /\ \A i \in 1..Len(incident.logs) : incident.logs[i].level = "INFO") =>
        error_patterns = <<>>

====
